---- MODULE Spec2Model ----
(***************************************************************************)
(* A model of the WSI swapchain of vulkan/libvulkan/swapchain.cpp: the     *)
(* Surface, the Swapchain and its image slots, the fence file descriptors  *)
(* the slots own, and the public entry points that create, acquire,        *)
(* present, orphan and destroy.  The native window and the driver are the  *)
(* environment: every answer they can give is a nondeterministic input of  *)
(* the action that asks.                                                   *)
(***************************************************************************)
EXTENDS Integers, Sequences, FiniteSets, TLC

\* ------------------------------------------------------------------ bounds

\* Swapchain objects alive at once; the allocator reuses the memory, and so
\* the handle, of a destroyed one.
MaxSwapchains == 2

\* Width in bits of the model's uint64_t times; arithmetic on them wraps
\* around at 2^TimeBits as the code's does at 2^64.
TimeBits == 4

\* Largest presentID an application uses.
MaxPresentId == 12

\* Largest presentID in the stores that records are copied out of.
MaxStoredId == 4

\* Largest *count an application passes to an enumerating query.
MaxCount == 5

\* --------------------------------------------------------- program constants

VK_NULL_HANDLE == 0
NoFence == -1
NUM_BUFFER_SLOTS == 64
MAX_TIMING_INFOS == 10
MIN_NUM_FRAMES_AGO == 5

VK_SUCCESS == "VK_SUCCESS"
VK_INCOMPLETE == "VK_INCOMPLETE"
VK_SUBOPTIMAL_KHR == "VK_SUBOPTIMAL_KHR"
VK_ERROR_OUT_OF_HOST_MEMORY == "VK_ERROR_OUT_OF_HOST_MEMORY"
VK_ERROR_OUT_OF_DEVICE_MEMORY == "VK_ERROR_OUT_OF_DEVICE_MEMORY"
VK_ERROR_INITIALIZATION_FAILED == "VK_ERROR_INITIALIZATION_FAILED"
VK_ERROR_DEVICE_LOST == "VK_ERROR_DEVICE_LOST"
VK_ERROR_SURFACE_LOST_KHR == "VK_ERROR_SURFACE_LOST_KHR"
VK_ERROR_NATIVE_WINDOW_IN_USE_KHR == "VK_ERROR_NATIVE_WINDOW_IN_USE_KHR"
VK_ERROR_OUT_OF_DATE_KHR == "VK_ERROR_OUT_OF_DATE_KHR"

VK_PRESENT_MODE_MAILBOX_KHR == "MAILBOX"
VK_PRESENT_MODE_FIFO_KHR == "FIFO"
VK_PRESENT_MODE_FRONT_BUFFERED_DEMAND_REFRESH_KHR == "FRONT_BUFFERED_DEMAND_REFRESH"
VK_PRESENT_MODE_FRONT_BUFFERED_CONTINUOUS_REFRESH_KHR == "FRONT_BUFFERED_CONTINUOUS_REFRESH"

VK_SURFACE_TRANSFORM_IDENTITY_BIT_KHR == "IDENTITY"
VK_SURFACE_TRANSFORM_ROTATE_90_BIT_KHR == "ROTATE_90"
VK_SURFACE_TRANSFORM_ROTATE_180_BIT_KHR == "ROTATE_180"
VK_SURFACE_TRANSFORM_ROTATE_270_BIT_KHR == "ROTATE_270"
VK_SURFACE_TRANSFORM_INHERIT_BIT_KHR == "INHERIT"
VK_SURFACE_TRANSFORM_HORIZONTAL_MIRROR_BIT_KHR == "HORIZONTAL_MIRROR"
VK_SURFACE_TRANSFORM_HORIZONTAL_MIRROR_ROTATE_90_BIT_KHR == "HORIZONTAL_MIRROR_ROTATE_90"
VK_SURFACE_TRANSFORM_HORIZONTAL_MIRROR_ROTATE_180_BIT_KHR == "HORIZONTAL_MIRROR_ROTATE_180"
VK_SURFACE_TRANSFORM_HORIZONTAL_MIRROR_ROTATE_270_BIT_KHR == "HORIZONTAL_MIRROR_ROTATE_270"

\* android/native_window.h transform bits: FLIP_H 1, FLIP_V 2, ROT_90 4.
NATIVE_WINDOW_TRANSFORM_ROT_90 == 4
NATIVE_WINDOW_TRANSFORM_ROT_180 == 3
NATIVE_WINDOW_TRANSFORM_ROT_270 == 7
NATIVE_WINDOW_TRANSFORM_INVERSE_DISPLAY == 8

\* ------------------------------------------------------------------- state

VARIABLES
    surface,      \* Surface::swapchain_handle of every surface
    swapchain,    \* the Swapchain object behind every handle
    window,       \* the native window (buffer queue) of every surface
    open_fds,     \* fence fds that are open and owned by this layer
    fd_error,     \* TRUE once an fd was closed or handed over while not open
    retired,      \* history: the live swapchains that were passed as the
                  \* oldSwapchain of a CreateSwapchainKHR that accepted them
    enrolled,     \* history: for every swapchain, the presentIDs whose
                  \* records were added to its timing store, for as long
                  \* as they came in increasing order, none was copied out
                  \* and the swapchain is its surface's active one
    last          \* the last entry point called, with what the application
                  \* passed and what it got back

vars == <<surface, swapchain, window, open_fds, fd_error, retired, enrolled, last>>

Handles == 1..MaxSwapchains
SurfaceIds == {"surfA", "surfB"}
NoWindow == "nullptr"

\* A VkImage and the ANativeWindowBuffer it aliases are named by the
\* swapchain and slot they were made for; <<>> is the null handle/pointer.
NoImage == <<>>
NoBuffer == <<>>
ForeignBuffer == <<0, 0>>
BufferOf(h, i) == <<h, i>>
ImageOf(h, i) == <<h, i>>

\* Swapchain::Image::Image()
NewImage == [image |-> NoImage, buffer |-> NoBuffer,
             dequeue_fence |-> NoFence, dequeued |-> FALSE]

\* The memory behind a handle that holds no Swapchain (never allocated, or
\* freed).
NoSwapchain ==
    [state |-> "free", surface |-> NoWindow, num_images |-> 0, images |-> <<>>,
     frame_timestamps_enabled |-> FALSE, min_refresh_duration |-> 0,
     timing |-> <<>>]

Live(w, h) == h \in Handles /\ w.swapchain[h].state = "live"
Slots(w, h) == 0..(w.swapchain[h].num_images - 1)
Img(w, h, i) == w.swapchain[h].images[i]

\* The state as one value, so that a handler is a function from world to world.
\* calls is the log of the calls the handler in progress has made.
World ==
    [surface |-> surface, swapchain |-> swapchain, window |-> window,
     open_fds |-> open_fds, fd_error |-> fd_error, calls |-> <<>>]

Log(w, call) == [w EXCEPT !.calls = Append(@, call)]

AppendAll(w, calls) == [w EXCEPT !.calls = @ \o calls]

SetImg(w, h, i, img) == [w EXCEPT !.swapchain[h].images[i] = img]

\* --------------------------------------------------------- file descriptors

\* Every fd some slot of a live swapchain refers to.
ReferencedFds(w) ==
    UNION {{Img(w, h, i).dequeue_fence : i \in Slots(w, h)} :
           h \in {x \in Handles : Live(w, x)}} \ {NoFence}

\* Descriptor numbers stand for the fences they refer to: the fence the
\* window makes when it hands out a buffer, the release fence the driver
\* makes for an image, the dup() of a fence.  Fences of different buffers
\* or kinds are different descriptors.
FdBase(kind) == kind * NUM_BUFFER_SLOTS * (MaxSwapchains + 1)
DequeueFence(buffer) == FdBase(0) + NUM_BUFFER_SLOTS * buffer[1] + buffer[2]
ReleaseFence(image) == FdBase(1) + NUM_BUFFER_SLOTS * image[1] + image[2]
DupFence(fd) == FdBase(2) + fd

\* A call returned fd to this layer, which owns it from now on.  A fence
\* that is made again while its descriptor is still open was leaked.
OpenFd(w, fd) ==
    IF fd = NoFence THEN w
    ELSE IF fd \in w.open_fds THEN [w EXCEPT !.fd_error = TRUE]
    ELSE [w EXCEPT !.open_fds = @ \cup {fd}]

\* The end of this layer's ownership of fd: close(fd), or a call that
\* consumes it.  An fd that is not open and ours is a double close.
DropFd(w, fd) ==
    IF fd \in w.open_fds
    THEN [w EXCEPT !.open_fds = @ \ {fd}]
    ELSE [w EXCEPT !.fd_error = TRUE]

CloseFd(w, fd) == Log(DropFd(w, fd), <<"close", fd>>)

\* ANativeWindow::cancelBuffer: the window takes the fence, -1 included.
CancelBuffer(w, s, buffer, fd) ==
    Log(IF fd = NoFence THEN w ELSE DropFd(w, fd), <<"cancelBuffer", s, buffer, fd>>)

\* ------------------------------------------------------------ release, orphan

\* A faulty ReleaseDequeued that forgets the dequeue fence when a release
\* fence takes its place.
ReleaseDequeuedKeepingFence(w, h, i, win, release_fence) ==
    LET img == Img(w, h, i)
        rf == IF release_fence >= 0 THEN release_fence ELSE img.dequeue_fence
        w2 == IF win # NoWindow
              THEN CancelBuffer(w, win, img.buffer, rf)
              ELSE IF rf >= 0
                   THEN CloseFd(Log(w, <<"sync_wait", rf>>), rf)
                   ELSE w
    IN SetImg(w2, h, i, [img EXCEPT !.dequeue_fence = NoFence, !.dequeued = FALSE])

\* The dequeued branch of ReleaseSwapchainImage.
ReleaseDequeued(w, h, i, win, release_fence) ==
    LET img == Img(w, h, i)
        w1 == IF release_fence >= 0 /\ img.dequeue_fence >= 0
              THEN CloseFd(w, img.dequeue_fence) ELSE w
        rf == IF release_fence >= 0 THEN release_fence ELSE img.dequeue_fence
        w2 == IF win # NoWindow
              THEN CancelBuffer(w1, win, img.buffer, rf)
              ELSE IF rf >= 0
                   THEN CloseFd(Log(w1, <<"sync_wait", rf>>), rf)
                   ELSE w1
    IN SetImg(w2, h, i, [img EXCEPT !.dequeue_fence = NoFence, !.dequeued = FALSE])

\* A faulty ReleaseSwapchainImage that drops the buffer and keeps the
\* VkImage.
ReleaseSwapchainImageKeepingImage(w, h, i, win, release_fence) ==
    LET w0 == IF release_fence = NoFence \/ Img(w, h, i).dequeued THEN w
              ELSE Log(w, <<"ALOG_ASSERT", "ReleaseSwapchainImage">>)
        w1 == IF Img(w0, h, i).dequeued
              THEN ReleaseDequeued(w0, h, i, win, release_fence) ELSE w0
    IN SetImg(w1, h, i, [Img(w1, h, i) EXCEPT !.buffer = NoBuffer])

ReleaseSwapchainImage(w, h, i, win, release_fence) ==
    LET w0 == IF release_fence = NoFence \/ Img(w, h, i).dequeued THEN w
              ELSE Log(w, <<"ALOG_ASSERT", "ReleaseSwapchainImage">>)
        w1 == IF Img(w0, h, i).dequeued
              THEN ReleaseDequeued(w0, h, i, win, release_fence) ELSE w0
        img == Img(w1, h, i)
        w2 == IF img.image # NoImage
              THEN SetImg(Log(w1, <<"DestroyImage", img.image>>), h, i,
                          [img EXCEPT !.image = NoImage])
              ELSE w1
    IN SetImg(w2, h, i, [Img(w2, h, i) EXCEPT !.buffer = NoBuffer])

\* A faulty ReleaseFrom that releases the dequeued slots as well.
RECURSIVE ReleaseFromAll(_, _, _, _, _)
ReleaseFromAll(w, h, i, win, onlyIdle) ==
    IF i >= w.swapchain[h].num_images THEN w
    ELSE ReleaseFromAll(ReleaseSwapchainImage(w, h, i, win, NoFence),
                        h, i + 1, win, onlyIdle)

\* ReleaseSwapchainImage(device, win, -1, images[j]) for j = i, i+1, ...,
\* num_images-1 in turn; with onlyIdle, only for the slots not dequeued.
RECURSIVE ReleaseFrom(_, _, _, _, _)
ReleaseFrom(w, h, i, win, onlyIdle) ==
    IF i >= w.swapchain[h].num_images THEN w
    ELSE ReleaseFrom(
            IF onlyIdle /\ Img(w, h, i).dequeued THEN w
            ELSE ReleaseSwapchainImage(w, h, i, win, NoFence),
            h, i + 1, win, onlyIdle)

\* A faulty OrphanSwapchain that keeps the timing records.
OrphanSwapchainKeepingTimings(w, h) ==
    LET s == w.swapchain[h].surface IN
    IF w.surface[s] # h THEN w
    ELSE [ReleaseFrom(w, h, 0, NoWindow, TRUE) EXCEPT !.surface[s] = VK_NULL_HANDLE]

\* A faulty OrphanSwapchain that releases the idle slots but leaves the
\* surface pointing at the swapchain.
OrphanSwapchainKeepingHandle(w, h) ==
    LET s == w.swapchain[h].surface IN
    IF w.surface[s] # h THEN w
    ELSE [ReleaseFrom(w, h, 0, NoWindow, TRUE) EXCEPT !.swapchain[h].timing = <<>>]

OrphanSwapchain(w, h) ==
    LET s == w.swapchain[h].surface IN
    IF w.surface[s] # h THEN w
    ELSE LET w1 == ReleaseFrom(w, h, 0, NoWindow, TRUE)
         IN [w1 EXCEPT !.surface[s] = VK_NULL_HANDLE,
                       !.swapchain[h].timing = <<>>]

\* ------------------------------------------------------------ native window

\* The window after api_disconnect + api_connect (swapchain.cpp:646-650):
\* its buffers are orphaned and all of them may be dequeued again.
NewWindow ==
    [buffer_count |-> 0, swap_interval |-> 1, min_undequeued |-> 0,
     shared_buffer_mode |-> FALSE, buffer_has_been_queued |-> FALSE,
     frame_timestamps |-> FALSE]

\* Buffers of the window's current set that the producer holds: the
\* dequeued slots of the surface's active swapchain.
DequeuedCount(w, s) ==
    IF w.surface[s] = VK_NULL_HANDLE THEN 0
    ELSE Cardinality({i \in Slots(w, w.surface[s]) : Img(w, w.surface[s], i).dequeued})

\* BufferQueue's undequeued minimum: the MIN_UNDEQUEUED_BUFFERS answer, one
\* more in async mode (swap interval 0), swapchain.cpp:779-782.
MinUndequeued(win) ==
    win.min_undequeued + (IF win.swap_interval = 0 THEN 1 ELSE 0)

\* A faulty window that hands out every free buffer at any time.
CanDequeueAnyFree(w, s) ==
    DequeuedCount(w, s) < w.window[s].buffer_count

\* Whether dequeueBuffer can hand out a buffer: some buffer is free, and
\* once a buffer has been queued the undequeued minimum is kept.
CanDequeue(w, s) ==
    /\ DequeuedCount(w, s) < w.window[s].buffer_count
    /\ \/ ~w.window[s].buffer_has_been_queued
       \/ DequeuedCount(w, s) < w.window[s].buffer_count - MinUndequeued(w.window[s])

\* The effect on the window of one successful configuration call.
WindowCall(win, call) ==
    CASE call[1] = "api_connect" -> NewWindow
      [] call[1] = "set_buffer_count" -> [win EXCEPT !.buffer_count = call[3]]
      [] call[1] = "setSwapInterval" -> [win EXCEPT !.swap_interval = call[3]]
      [] call[1] = "set_shared_buffer_mode" -> [win EXCEPT !.shared_buffer_mode = call[3]]
      [] call[1] = "query" -> [win EXCEPT !.min_undequeued = call[4]]
      [] OTHER -> win

RECURSIVE WindowCalls(_, _)
WindowCalls(win, calls) ==
    IF calls = <<>> THEN win
    ELSE WindowCalls(WindowCall(win, Head(calls)), Tail(calls))

\* ----------------------------------------------------------- transform codec

\* The values of VkSurfaceTransformFlagBitsKHR.
SurfaceTransforms ==
    {VK_SURFACE_TRANSFORM_IDENTITY_BIT_KHR,
     VK_SURFACE_TRANSFORM_ROTATE_90_BIT_KHR,
     VK_SURFACE_TRANSFORM_ROTATE_180_BIT_KHR,
     VK_SURFACE_TRANSFORM_ROTATE_270_BIT_KHR,
     VK_SURFACE_TRANSFORM_HORIZONTAL_MIRROR_BIT_KHR,
     VK_SURFACE_TRANSFORM_HORIZONTAL_MIRROR_ROTATE_90_BIT_KHR,
     VK_SURFACE_TRANSFORM_HORIZONTAL_MIRROR_ROTATE_180_BIT_KHR,
     VK_SURFACE_TRANSFORM_HORIZONTAL_MIRROR_ROTATE_270_BIT_KHR,
     VK_SURFACE_TRANSFORM_INHERIT_BIT_KHR}

\* A faulty TranslateNativeToVulkanTransform that does not look at the
\* INVERSE_DISPLAY bit.
TranslateNativeIgnoringInverseDisplay(native) ==
    CASE native % NATIVE_WINDOW_TRANSFORM_INVERSE_DISPLAY = 0 ->
            VK_SURFACE_TRANSFORM_IDENTITY_BIT_KHR
      [] native % NATIVE_WINDOW_TRANSFORM_INVERSE_DISPLAY = NATIVE_WINDOW_TRANSFORM_ROT_180 ->
            VK_SURFACE_TRANSFORM_ROTATE_180_BIT_KHR
      [] native % NATIVE_WINDOW_TRANSFORM_INVERSE_DISPLAY = NATIVE_WINDOW_TRANSFORM_ROT_90 ->
            VK_SURFACE_TRANSFORM_ROTATE_90_BIT_KHR
      [] native % NATIVE_WINDOW_TRANSFORM_INVERSE_DISPLAY = NATIVE_WINDOW_TRANSFORM_ROT_270 ->
            VK_SURFACE_TRANSFORM_ROTATE_270_BIT_KHR
      [] OTHER -> VK_SURFACE_TRANSFORM_IDENTITY_BIT_KHR

TranslateNativeToVulkanTransform(native) ==
    CASE native = 0 -> VK_SURFACE_TRANSFORM_IDENTITY_BIT_KHR
      [] native = NATIVE_WINDOW_TRANSFORM_ROT_180 -> VK_SURFACE_TRANSFORM_ROTATE_180_BIT_KHR
      [] native = NATIVE_WINDOW_TRANSFORM_ROT_90 -> VK_SURFACE_TRANSFORM_ROTATE_90_BIT_KHR
      [] native = NATIVE_WINDOW_TRANSFORM_ROT_270 -> VK_SURFACE_TRANSFORM_ROTATE_270_BIT_KHR
      [] OTHER -> VK_SURFACE_TRANSFORM_IDENTITY_BIT_KHR

\* A faulty InvertTransformToNative that never asks for a rotation.
InvertTransformToNativeNone(transform) == 0

\* A faulty InvertTransformToNative that answers the rotation itself.
InvertTransformToNativeSame(transform) ==
    CASE transform = VK_SURFACE_TRANSFORM_ROTATE_90_BIT_KHR -> NATIVE_WINDOW_TRANSFORM_ROT_90
      [] transform = VK_SURFACE_TRANSFORM_ROTATE_180_BIT_KHR -> NATIVE_WINDOW_TRANSFORM_ROT_180
      [] transform = VK_SURFACE_TRANSFORM_ROTATE_270_BIT_KHR -> NATIVE_WINDOW_TRANSFORM_ROT_270
      [] OTHER -> 0

InvertTransformToNative(transform) ==
    CASE transform = VK_SURFACE_TRANSFORM_ROTATE_90_BIT_KHR -> NATIVE_WINDOW_TRANSFORM_ROT_270
      [] transform = VK_SURFACE_TRANSFORM_ROTATE_180_BIT_KHR -> NATIVE_WINDOW_TRANSFORM_ROT_180
      [] transform = VK_SURFACE_TRANSFORM_ROTATE_270_BIT_KHR -> NATIVE_WINDOW_TRANSFORM_ROT_90
      [] OTHER -> 0

\* ------------------------------------------------------------------ destroy

\* The signal that ends the process when a call through a null pointer
\* does not return.
SIGSEGV == "SIGSEGV"

\* Whether DestroySwapchainKHR(h) calls
\* native_window_enable_frame_timestamps with a null window, which
\* dereferences it.
DestroyCallsNullWindow(w, h) ==
    w.swapchain[h].frame_timestamps_enabled /\ w.surface[w.swapchain[h].surface] # h

\* DestroySwapchainKHR for a non-null handle.  returns: whether a call
\* through the null window returns; when it does not, the process ends in
\* it and the call is the last of the log.
DestroySwapchainKHRWith(w, h, returns) ==
    LET sc == w.swapchain[h]
        s == sc.surface
        active == w.surface[s] = h
        win == IF active THEN s ELSE NoWindow
        w1 == IF sc.frame_timestamps_enabled
              THEN Log(w, <<"enable_frame_timestamps", win, FALSE>>) ELSE w
        w2 == IF sc.frame_timestamps_enabled /\ active
              THEN [w1 EXCEPT !.window[s].frame_timestamps = FALSE] ELSE w1
        w3 == ReleaseFrom(w2, h, 0, win, FALSE)
        w4 == IF active THEN [w3 EXCEPT !.surface[s] = VK_NULL_HANDLE] ELSE w3
    IN IF DestroyCallsNullWindow(w, h) /\ ~returns
       THEN Log(w1, <<SIGSEGV>>)
       ELSE [w4 EXCEPT !.swapchain[h] = NoSwapchain]

\* DestroySwapchainKHR when every call it makes returns.
DestroySwapchainKHR(w, h) == DestroySwapchainKHRWith(w, h, TRUE)

\* ------------------------------------------------------------------- create

VK_FORMAT_R8G8B8A8_UNORM == "R8G8B8A8_UNORM"
VK_FORMAT_R8G8B8A8_SRGB == "R8G8B8A8_SRGB"
VK_FORMAT_R5G6B5_UNORM_PACK16 == "R5G6B5_UNORM_PACK16"

\* The switch on create_info->imageFormat.
NativeFormat(imageFormat) ==
    IF imageFormat = VK_FORMAT_R5G6B5_UNORM_PACK16
    THEN "HAL_PIXEL_FORMAT_RGB_565" ELSE "HAL_PIXEL_FORMAT_RGBA_8888"

FrontBuffered(presentMode) ==
    presentMode \in {VK_PRESENT_MODE_FRONT_BUFFERED_DEMAND_REFRESH_KHR,
                     VK_PRESENT_MODE_FRONT_BUFFERED_CONTINUOUS_REFRESH_KHR}

\* A faulty MinUndequeuedBuffers that treats mailbox like every other mode.
MinUndequeuedBuffersIgnoringMode(ci, query_value) == query_value

\* min_undequeued_buffers: the window's answer, one more for mailbox.
MinUndequeuedBuffers(ci, query_value) ==
    query_value + (IF ci.presentMode = VK_PRESENT_MODE_MAILBOX_KHR THEN 1 ELSE 0)

\* A faulty NumImages that does not count the image the application may
\* hold as one of the window's undequeued ones.
NumImagesOffByOne(ci, query_value) ==
    ci.minImageCount + MinUndequeuedBuffers(ci, query_value)

\* num_images.  The code computes it in uint32_t; with minImageCount >= 1
\* and an answer far below 2^31, as here, nothing wraps.
NumImages(ci, query_value) ==
    (ci.minImageCount - 1) + MinUndequeuedBuffers(ci, query_value)

\* The window and driver calls CreateSwapchainKHR makes between the
\* oldSwapchain check and the allocation of the Swapchain, in order.  Each
\* but the first two ends the call with VK_ERROR_INITIALIZATION_FAILED when
\* it fails.
ConfigCalls(ci, query_value) ==
    LET s == ci.surface IN
    << <<"api_disconnect", s>>,
       <<"api_connect", s>>,
       <<"set_buffer_count", s, 0>>,
       <<"setSwapInterval", s, 1>>,
       <<"set_shared_buffer_mode", s, FALSE>>,
       <<"set_auto_refresh", s, FALSE>>,
       <<"set_buffers_format", s, NativeFormat(ci.imageFormat)>>,
       <<"set_buffers_data_space", s, "HAL_DATASPACE_SRGB_LINEAR">>,
       <<"set_buffers_dimensions", s>>,
       <<"set_buffers_transform", s, InvertTransformToNative(ci.preTransform)>>,
       <<"set_scaling_mode", s, "SCALE_TO_WINDOW">>,
       <<"query", s, "MIN_UNDEQUEUED_BUFFERS", query_value>>,
       <<"set_buffer_count", s, NumImages(ci, query_value)>> >>
    \o (IF FrontBuffered(ci.presentMode)
        THEN << <<"set_shared_buffer_mode", s, TRUE>> >> ELSE <<>>)
    \o (IF ci.presentMode = VK_PRESENT_MODE_FRONT_BUFFERED_CONTINUOUS_REFRESH_KHR
        THEN << <<"set_auto_refresh", s, TRUE>> >> ELSE <<>>)
    \o << <<"GetSwapchainGrallocUsage2ANDROID", FrontBuffered(ci.presentMode)>>,
          <<"set_usage", s>>,
          <<"setSwapInterval", s,
            IF ci.presentMode = VK_PRESENT_MODE_MAILBOX_KHR THEN 0 ELSE 1>> >>

FirstFallibleCall == 3

\* Swapchain::Swapchain(surface, num_images); min_rdur is what the window
\* answers to native_window_get_refresh_cycle_period.
NewSwapchain(s, num_images, min_rdur) ==
    [state |-> "live", surface |-> s, num_images |-> num_images,
     images |-> [i \in 0..(num_images - 1) |-> NewImage],
     frame_timestamps_enabled |-> FALSE, min_refresh_duration |-> min_rdur,
     timing |-> <<>>]

\* The loop that dequeues every buffer and creates its VkImage, from slot i
\* on.  env.fail names the step that fails, env.fences the slots whose
\* buffer comes with a fence fd.
RECURSIVE PopulateFrom(_, _, _, _)
PopulateFrom(w, h, i, env) ==
    LET s == w.swapchain[h].surface IN
    IF i >= w.swapchain[h].num_images THEN [w |-> w, result |-> VK_SUCCESS]
    ELSE IF env.fail = <<"dequeueBuffer", i>>
    THEN [w |-> Log(w, <<"dequeueBuffer", s, NoBuffer, NoFence>>),
          result |-> VK_ERROR_INITIALIZATION_FAILED]
    ELSE
        LET buffer == BufferOf(h, i)
            fence == IF i \in env.fences THEN DequeueFence(buffer) ELSE NoFence
            w1 == Log(OpenFd(w, fence), <<"dequeueBuffer", s, buffer, fence>>)
            w2 == SetImg(w1, h, i, [Img(w1, h, i) EXCEPT !.dequeue_fence = fence,
                                        !.buffer = buffer, !.dequeued = TRUE])
        IN IF env.fail = <<"CreateImage", i>>
           THEN [w |-> Log(w2, <<"CreateImage", NoImage>>), result |-> env.error]
           ELSE PopulateFrom(
                    SetImg(Log(w2, <<"CreateImage", ImageOf(h, i)>>), h, i,
                           [Img(w2, h, i) EXCEPT !.image = ImageOf(h, i)]),
                    h, i + 1, env)

\* A faulty CancelFrom that cancels the buffers and, after a failure,
\* leaves the images created so far to the driver.
RECURSIVE CancelFromKeepingImages(_, _, _, _)
CancelFromKeepingImages(w, h, i, result) ==
    IF i >= w.swapchain[h].num_images THEN w
    ELSE LET img == Img(w, h, i)
             w1 == IF img.dequeued
                   THEN SetImg(CancelBuffer(w, w.swapchain[h].surface, img.buffer,
                                            img.dequeue_fence),
                               h, i,
                               [img EXCEPT !.dequeue_fence = NoFence, !.dequeued = FALSE])
                   ELSE w
         IN CancelFromKeepingImages(w1, h, i + 1, result)

\* A faulty CancelFrom that hands the fence to the window and still keeps
\* its number in the slot.
RECURSIVE CancelFromKeepingFence(_, _, _, _)
CancelFromKeepingFence(w, h, i, result) ==
    IF i >= w.swapchain[h].num_images THEN w
    ELSE LET img == Img(w, h, i)
             w1 == IF img.dequeued
                   THEN SetImg(CancelBuffer(w, w.swapchain[h].surface, img.buffer,
                                            img.dequeue_fence),
                               h, i, [img EXCEPT !.dequeued = FALSE])
                   ELSE w
             w2 == IF result # VK_SUCCESS /\ img.image # NoImage
                   THEN Log(w1, <<"DestroyImage", img.image>>) ELSE w1
         IN CancelFromKeepingFence(w2, h, i + 1, result)

\* The loop that cancels every dequeued buffer and, after a failure,
\* destroys the images created so far.
RECURSIVE CancelFrom(_, _, _, _)
CancelFrom(w, h, i, result) ==
    IF i >= w.swapchain[h].num_images THEN w
    ELSE LET img == Img(w, h, i)
             w1 == IF img.dequeued
                   THEN SetImg(CancelBuffer(w, w.swapchain[h].surface, img.buffer,
                                            img.dequeue_fence),
                               h, i,
                               [img EXCEPT !.dequeue_fence = NoFence, !.dequeued = FALSE])
                   ELSE w
             w2 == IF result # VK_SUCCESS /\ img.image # NoImage
                   THEN Log(w1, <<"DestroyImage", img.image>>) ELSE w1
         IN CancelFrom(w2, h, i + 1, result)

Lowest(S) == CHOOSE x \in S : \A y \in S : x <= y

\* The handle of the next Swapchain the allocator returns.
FreeHandles(w) == {h \in Handles : w.swapchain[h].state = "free"}

\* A faulty CreateAllocated that frees the Swapchain after a failure
\* without cancelling the buffers it dequeued.
CreateAllocatedNotCancelling(w, ci, env) ==
    LET h == Lowest(FreeHandles(w))
        s == ci.surface
        w1 == Log([w EXCEPT !.swapchain[h] =
                       NewSwapchain(s, NumImages(ci, env.query_value), env.min_rdur)],
                  <<"get_refresh_cycle_period", s>>)
        pop == PopulateFrom(w1, h, 0, env)
    IN IF pop.result # VK_SUCCESS
       THEN [w |-> [pop.w EXCEPT !.swapchain[h] = NoSwapchain],
             result |-> pop.result, handle |-> VK_NULL_HANDLE]
       ELSE [w |-> [CancelFrom(pop.w, h, 0, pop.result) EXCEPT !.surface[s] = h],
             result |-> VK_SUCCESS, handle |-> h]

\* CreateSwapchainKHR from the allocation of the Swapchain on.
CreateAllocated(w, ci, env) ==
    LET h == Lowest(FreeHandles(w))
        s == ci.surface
        w1 == Log([w EXCEPT !.swapchain[h] =
                       NewSwapchain(s, NumImages(ci, env.query_value), env.min_rdur)],
                  <<"get_refresh_cycle_period", s>>)
        pop == PopulateFrom(w1, h, 0, env)
        w2 == CancelFrom(pop.w, h, 0, pop.result)
    IN IF pop.result # VK_SUCCESS
       THEN [w |-> [w2 EXCEPT !.swapchain[h] = NoSwapchain],
             result |-> pop.result, handle |-> VK_NULL_HANDLE]
       ELSE [w |-> [w2 EXCEPT !.surface[s] = h],
             result |-> VK_SUCCESS, handle |-> h]

\* A faulty oldSwapchain check that accepts any oldSwapchain for a surface
\* without an active swapchain.
OldSwapchainMismatchOfActive(w, ci) ==
    w.surface[ci.surface] # VK_NULL_HANDLE /\ w.surface[ci.surface] # ci.oldSwapchain

\* A faulty oldSwapchain check that only looks at a non-null oldSwapchain.
OldSwapchainMismatchWhenGiven(w, ci) ==
    ci.oldSwapchain # VK_NULL_HANDLE /\ w.surface[ci.surface] # ci.oldSwapchain

\* The oldSwapchain check: the surface has another active swapchain than the
\* one the application hands over.
OldSwapchainMismatch(w, ci) == w.surface[ci.surface] # ci.oldSwapchain

\* CreateSwapchainKHR.  env: query_value, the MIN_UNDEQUEUED_BUFFERS answer;
\* fail, the step that fails (<<"none">>, <<"config", k>> for the k-th call
\* of ConfigCalls, <<"alloc">>, <<"dequeueBuffer", i>>, <<"CreateImage", i>>);
\* fences; error, the driver's error code; min_rdur, the window's minimum
\* refresh cycle period.
CreateSwapchainKHR(w, ci, env) ==
    LET s == ci.surface
        calls == ConfigCalls(ci, env.query_value)
    IN
    IF OldSwapchainMismatch(w, ci)
    THEN [w |-> w, result |-> VK_ERROR_NATIVE_WINDOW_IN_USE_KHR,
          handle |-> VK_NULL_HANDLE]
    ELSE
        LET w1 == IF ci.oldSwapchain # VK_NULL_HANDLE
                  THEN OrphanSwapchain(w, ci.oldSwapchain) ELSE w
        IN
        IF env.fail[1] = "config"
        THEN [w |-> AppendAll(
                      [w1 EXCEPT !.window[s] =
                          WindowCalls(@, SubSeq(calls, 1, env.fail[2] - 1))],
                      SubSeq(calls, 1, env.fail[2])),
              result |-> VK_ERROR_INITIALIZATION_FAILED, handle |-> VK_NULL_HANDLE]
        ELSE
            LET w2 == AppendAll([w1 EXCEPT !.window[s] = WindowCalls(@, calls)], calls)
            IN IF env.fail[1] = "alloc"
               THEN [w |-> w2, result |-> VK_ERROR_OUT_OF_HOST_MEMORY,
                     handle |-> VK_NULL_HANDLE]
               ELSE CreateAllocated(w2, ci, env)

\* ------------------------------------------------------------------ acquire

\* A faulty FindBuffer that finds the buffer and reports the slot the
\* search started at.
RECURSIVE FindBufferReportingFirst(_, _, _, _)
FindBufferReportingFirst(w, h, idx, buffer) ==
    IF idx >= w.swapchain[h].num_images THEN idx
    ELSE IF Img(w, h, idx).buffer = buffer THEN 0
    ELSE FindBufferReportingFirst(w, h, idx + 1, buffer)

\* The index of the slot whose buffer pointer is buffer, num_images when
\* there is none (the lookup loop of AcquireNextImageKHR).
RECURSIVE FindBuffer(_, _, _, _)
FindBuffer(w, h, idx, buffer) ==
    IF idx >= w.swapchain[h].num_images THEN idx
    ELSE IF Img(w, h, idx).buffer = buffer THEN idx
    ELSE FindBuffer(w, h, idx + 1, buffer)

\* A faulty AcquireUnknownBuffer that returns without giving the buffer
\* back.
AcquireUnknownBufferKept(w, s, buffer, fence_fd) ==
    [w |-> w, result |-> VK_ERROR_OUT_OF_DATE_KHR, index |-> -1]

\* The dequeued buffer is none of the swapchain's: it goes back to the
\* window with its fence.
AcquireUnknownBuffer(w, s, buffer, fence_fd) ==
    [w |-> CancelBuffer(w, s, buffer, fence_fd),
     result |-> VK_ERROR_OUT_OF_DATE_KHR, index |-> -1]

\* A faulty AcquireDriverFailed that gives the buffer back and leaves the
\* slot marked as the application's.
AcquireDriverFailedKeepingSlot(w, h, idx, buffer, fence_fd, result) ==
    [w |-> CancelBuffer(w, w.swapchain[h].surface, buffer, fence_fd),
     result |-> result, index |-> -1]

\* AcquireImageANDROID failed: the buffer goes back to the window with the
\* fence it came with, the slot is the window's again, and the duplicate of
\* the fence is left to the driver.
AcquireDriverFailed(w, h, idx, buffer, fence_fd, result) ==
    [w |-> SetImg(CancelBuffer(w, w.swapchain[h].surface, buffer, fence_fd), h, idx,
                  [Img(w, h, idx) EXCEPT !.dequeued = FALSE,
                                         !.dequeue_fence = NoFence]),
     result |-> result, index |-> -1]

\* AcquireNextImageKHR.  env: dequeue, the window's answer ("fail", or
\* "ok" with env.buffer and a fence fd when env.fence); dup, whether dup()
\* succeeds; driver, the result of AcquireImageANDROID.
AcquireNextImageKHR(w, h, env) ==
    LET s == w.swapchain[h].surface IN
    IF w.surface[s] # h
    THEN [w |-> w, result |-> VK_ERROR_OUT_OF_DATE_KHR, index |-> -1]
    ELSE IF env.dequeue = "fail"
    THEN [w |-> Log(w, <<"dequeueBuffer", s, NoBuffer, NoFence>>),
          result |-> VK_ERROR_INITIALIZATION_FAILED, index |-> -1]
    ELSE
        LET buffer == env.buffer
            fence_fd == IF env.fence THEN DequeueFence(buffer) ELSE NoFence
            w1 == Log(OpenFd(w, fence_fd), <<"dequeueBuffer", s, buffer, fence_fd>>)
            idx == FindBuffer(w1, h, 0, buffer)
        IN
        IF idx = w1.swapchain[h].num_images
        THEN AcquireUnknownBuffer(w1, s, buffer, fence_fd)
        ELSE
            LET w2 == SetImg(w1, h, idx, [Img(w1, h, idx) EXCEPT
                                 !.dequeued = TRUE, !.dequeue_fence = fence_fd])
                fence_clone == IF fence_fd # NoFence /\ env.dup
                               THEN DupFence(fence_fd) ELSE NoFence
                w3 == IF fence_fd # NoFence
                      THEN Log(w2, <<"dup", fence_fd, fence_clone>>) ELSE w2
                w4 == IF fence_fd # NoFence /\ fence_clone = NoFence
                      THEN Log(w3, <<"sync_wait", fence_fd>>) ELSE w3
                \* the driver owns fence_clone from here on, whatever it answers
                w5 == Log(w4, <<"AcquireImageANDROID", Img(w4, h, idx).image,
                                fence_clone>>)
            IN
            IF env.driver # VK_SUCCESS
            THEN AcquireDriverFailed(w5, h, idx, buffer, fence_fd, env.driver)
            ELSE [w |-> w5, result |-> VK_SUCCESS, index |-> idx]

\* ------------------------------------------------------------- timing store

TimeModulus == 2^TimeBits

\* TimingInfo(const VkPresentTimeGOOGLE*): the value block vals_ and the
\* four timestamps of the window.
TimingInfo(time) ==
    [presentID |-> time.presentID,
     desiredPresentTime |-> time.desiredPresentTime,
     actualPresentTime |-> 0, earliestPresentTime |-> 0, presentMargin |-> 0,
     timestamp_desired_present_time |-> 0,
     timestamp_actual_present_time |-> 0,
     timestamp_render_complete_time |-> 0,
     timestamp_composition_latch_time |-> 0]

\* A faulty ready that does not look at the desired present time.
ReadyIgnoringDesired(ti) ==
    /\ ti.timestamp_actual_present_time # 0
    /\ ti.timestamp_render_complete_time # 0
    /\ ti.timestamp_composition_latch_time # 0

\* TimingInfo::ready
Ready(ti) ==
    /\ ti.timestamp_desired_present_time # 0
    /\ ti.timestamp_actual_present_time # 0
    /\ ti.timestamp_render_complete_time # 0
    /\ ti.timestamp_composition_latch_time # 0

\* TimingInfo::get_values: the value block the application reads.
Values(ti) ==
    [presentID |-> ti.presentID,
     desiredPresentTime |-> ti.desiredPresentTime,
     actualPresentTime |-> ti.actualPresentTime,
     earliestPresentTime |-> ti.earliestPresentTime,
     presentMargin |-> ti.presentMargin]

\* The while loop of TimingInfo::calculate.  With rdur = 0 a loop that is
\* entered never ends (returns = FALSE).
RECURSIVE CalculateLoop(_, _, _, _)
CalculateLoop(early_time, margin, latch, rdur) ==
    IF margin > rdur /\ ((early_time - rdur) % TimeModulus) > latch
    THEN IF rdur = 0
         THEN [early_time |-> early_time, margin |-> margin, returns |-> FALSE]
         ELSE CalculateLoop((early_time - rdur) % TimeModulus,
                            (margin - rdur) % TimeModulus, latch, rdur)
    ELSE [early_time |-> early_time, margin |-> margin, returns |-> TRUE]

\* TimingInfo::calculate
Calculate(ti, rdur) ==
    LET loop == CalculateLoop(ti.timestamp_actual_present_time,
                              (ti.timestamp_composition_latch_time
                                 - ti.timestamp_render_complete_time) % TimeModulus,
                              ti.timestamp_composition_latch_time, rdur)
    IN [ti |-> [ti EXCEPT !.actualPresentTime = ti.timestamp_actual_present_time,
                          !.earliestPresentTime = loop.early_time,
                          !.presentMargin = loop.margin],
        returns |-> loop.returns]

\* Where SortedVector puts an item of this presentID: the index of the
\* first item that compare_type does not order before it.
RECURSIVE OrderOf(_, _, _)
OrderOf(timing, presentID, k) ==
    IF k > Len(timing) \/ timing[k].presentID >= presentID THEN k
    ELSE OrderOf(timing, presentID, k + 1)

\* SortedVector<TimingInfo>::add under compare_type: an item that compares
\* equal to the new one is replaced by it, otherwise the new one is
\* inserted at its place in the order.
SortedAdd(timing, ti) ==
    LET k == OrderOf(timing, ti.presentID, 1) IN
    IF k <= Len(timing) /\ timing[k].presentID = ti.presentID
    THEN [timing EXCEPT ![k] = ti]
    ELSE SubSeq(timing, 1, k - 1) \o <<ti>> \o SubSeq(timing, k, Len(timing))

\* A faulty RemoveAt that removes the last item.
RemoveAtEnd(timing, k) == SubSeq(timing, 1, Len(timing) - 1)

\* SortedVector::removeAt(k), k counted from 1.
RemoveAt(timing, k) ==
    SubSeq(timing, 1, k - 1) \o SubSeq(timing, k + 1, Len(timing))

\* native_window_enable_frame_timestamps(window, true) the first time a
\* swapchain needs the timestamps.
EnableFrameTimestamps(w, h) ==
    LET s == w.swapchain[h].surface IN
    IF w.swapchain[h].frame_timestamps_enabled THEN w
    ELSE [Log(w, <<"enable_frame_timestamps", s, TRUE>>) EXCEPT
             !.window[s].frame_timestamps = TRUE,
             !.swapchain[h].frame_timestamps_enabled = TRUE]

\* A faulty StoreTiming that lets the store grow.
StoreTimingUnclamped(timing, time) == SortedAdd(timing, TimingInfo(time))

\* The record of a present is added to the store, and the record with
\* the smallest presentID leaves a store of more than MAX_TIMING_INFOS.
StoreTiming(timing, time) ==
    LET added == SortedAdd(timing, TimingInfo(time)) IN
    IF Len(added) > MAX_TIMING_INFOS THEN RemoveAt(added, 1) ELSE added

\* The timing hint of a present on the active swapchain h.
EnrollTiming(w, h, time) ==
    LET s == w.swapchain[h].surface
        w1 == EnableFrameTimestamps(w, h)
        w2 == Log([w1 EXCEPT !.swapchain[h].timing = StoreTiming(@, time)],
                  <<"timing.add", h, time.presentID>>)
    IN IF time.desiredPresentTime # 0
       THEN Log(w2, <<"set_buffers_timestamp", s, time.desiredPresentTime>>)
       ELSE w2

\* What native_window_get_frame_timestamps answers for the frame f frames
\* ago: env.frames lists the answers from MIN_NUM_FRAMES_AGO on, and the
\* window has nothing older.
NoFrame == [ok |-> FALSE, desired |-> 0, actual |-> 0, render |-> 0, latch |-> 0]

FrameTimestamps(env, f) ==
    IF f - MIN_NUM_FRAMES_AGO + 1 \in 1..Len(env.frames)
    THEN env.frames[f - MIN_NUM_FRAMES_AGO + 1] ELSE NoFrame

\* A faulty ProbeFrom that takes the timestamps of the first frame the
\* window knows, whatever present it belongs to.
RECURSIVE ProbeFromAnyFrame(_, _, _, _, _, _)
ProbeFromAnyFrame(w, h, i, f, frames_ago, env) ==
    IF f >= frames_ago THEN [w |-> w, ready |-> FALSE, returns |-> TRUE]
    ELSE
        LET s == w.swapchain[h].surface
            got == FrameTimestamps(env, f)
            ti == w.swapchain[h].timing[i]
            w1 == Log(w, <<"get_frame_timestamps", s, f>>)
        IN IF ~got.ok THEN [w |-> w1, ready |-> FALSE, returns |-> TRUE]
           ELSE LET filled == [ti EXCEPT
                                 !.timestamp_desired_present_time = got.desired,
                                 !.timestamp_actual_present_time = got.actual,
                                 !.timestamp_render_complete_time = got.render,
                                 !.timestamp_composition_latch_time = got.latch]
                    calc == Calculate(filled, w.swapchain[h].min_refresh_duration)
                IN IF Ready(filled)
                   THEN [w |-> [w1 EXCEPT !.swapchain[h].timing[i] = calc.ti],
                         ready |-> TRUE, returns |-> calc.returns]
                   ELSE [w |-> [w1 EXCEPT !.swapchain[h].timing[i] = filled],
                         ready |-> FALSE, returns |-> TRUE]

\* The loop over f of get_num_ready_timings for the record at index i
\* (counted from 1) that is not ready.  The answer: the world, whether the
\* record became ready, whether calculate returned.
RECURSIVE ProbeFrom(_, _, _, _, _, _)
ProbeFrom(w, h, i, f, frames_ago, env) ==
    IF f >= frames_ago THEN [w |-> w, ready |-> FALSE, returns |-> TRUE]
    ELSE
        LET s == w.swapchain[h].surface
            got == FrameTimestamps(env, f)
            ti == w.swapchain[h].timing[i]
            w1 == Log(w, <<"get_frame_timestamps", s, f>>)
        IN IF ~got.ok THEN [w |-> w1, ready |-> FALSE, returns |-> TRUE]
           ELSE IF got.desired = ti.desiredPresentTime
           THEN LET filled == [ti EXCEPT
                                 !.timestamp_desired_present_time = got.desired,
                                 !.timestamp_actual_present_time = got.actual,
                                 !.timestamp_render_complete_time = got.render,
                                 !.timestamp_composition_latch_time = got.latch]
                    calc == Calculate(filled, w.swapchain[h].min_refresh_duration)
                IN IF Ready(filled)
                   THEN [w |-> [w1 EXCEPT !.swapchain[h].timing[i] = calc.ti],
                         ready |-> TRUE, returns |-> calc.returns]
                   ELSE [w |-> [w1 EXCEPT !.swapchain[h].timing[i] = filled],
                         ready |-> FALSE, returns |-> TRUE]
           ELSE ProbeFrom(w1, h, i, f + 1, frames_ago, env)

\* A faulty ReadyFrom that starts its search at the newest frame.
RECURSIVE ReadyFromNewestFrame(_, _, _, _, _)
ReadyFromNewestFrame(w, h, i, num_ready, env) ==
    LET timing == w.swapchain[h].timing IN
    IF i > Len(timing) THEN [w |-> w, num_ready |-> num_ready, returns |-> TRUE]
    ELSE IF Ready(timing[i]) THEN ReadyFromNewestFrame(w, h, i + 1, num_ready + 1, env)
    ELSE LET probe == ProbeFrom(w, h, i, 0, Len(timing), env)
         IN IF ~probe.returns
            THEN [w |-> probe.w, num_ready |-> num_ready, returns |-> FALSE]
            ELSE ReadyFromNewestFrame(probe.w, h, i + 1,
                                      num_ready + (IF probe.ready THEN 1 ELSE 0), env)

\* A faulty ReadyFrom that does not count the records that become ready
\* during the call.
RECURSIVE ReadyFromMissingNew(_, _, _, _, _)
ReadyFromMissingNew(w, h, i, num_ready, env) ==
    LET timing == w.swapchain[h].timing IN
    IF i > Len(timing) THEN [w |-> w, num_ready |-> num_ready, returns |-> TRUE]
    ELSE IF Ready(timing[i]) THEN ReadyFromMissingNew(w, h, i + 1, num_ready + 1, env)
    ELSE LET probe == ProbeFrom(w, h, i, MIN_NUM_FRAMES_AGO, Len(timing), env)
         IN IF ~probe.returns
            THEN [w |-> probe.w, num_ready |-> num_ready, returns |-> FALSE]
            ELSE ReadyFromMissingNew(probe.w, h, i + 1, num_ready, env)

\* get_num_ready_timings from the record at index i on.
RECURSIVE ReadyFrom(_, _, _, _, _)
ReadyFrom(w, h, i, num_ready, env) ==
    LET timing == w.swapchain[h].timing IN
    IF i > Len(timing) THEN [w |-> w, num_ready |-> num_ready, returns |-> TRUE]
    ELSE IF Ready(timing[i]) THEN ReadyFrom(w, h, i + 1, num_ready + 1, env)
    ELSE LET probe == ProbeFrom(w, h, i, MIN_NUM_FRAMES_AGO, Len(timing), env)
         IN IF ~probe.returns
            THEN [w |-> probe.w, num_ready |-> num_ready, returns |-> FALSE]
            ELSE ReadyFrom(probe.w, h, i + 1,
                           num_ready + (IF probe.ready THEN 1 ELSE 0), env)

get_num_ready_timings(w, h, env) == ReadyFrom(w, h, 1, 0, env)

\* A faulty CopyFrom that moves on to the next index after it removed a
\* record.
RECURSIVE CopyFromSkipping(_, _, _, _, _)
CopyFromSkipping(timing, i, num_timings, count, copied) ==
    IF i > num_timings THEN [timing |-> timing, timings |-> copied]
    ELSE IF Ready(timing[i])
    THEN LET out == Append(copied, Values(timing[i]))
             rest == RemoveAt(timing, i)
         IN IF count = Len(out) THEN [timing |-> rest, timings |-> out]
            ELSE CopyFromSkipping(rest, i + 1, num_timings - 1, count, out)
    ELSE CopyFromSkipping(timing, i + 1, num_timings, count, copied)

\* The loop of copy_ready_timings: i is the index it looks at (counted
\* from 1), num_timings the index it stops behind, copied what it has
\* written to the application's buffer.  Removing a record moves the later
\* ones down, so the loop looks at the same index again.
RECURSIVE CopyFrom(_, _, _, _, _)
CopyFrom(timing, i, num_timings, count, copied) ==
    IF i > num_timings THEN [timing |-> timing, timings |-> copied]
    ELSE IF Ready(timing[i])
    THEN LET out == Append(copied, Values(timing[i]))
             rest == RemoveAt(timing, i)
         IN IF count = Len(out) THEN [timing |-> rest, timings |-> out]
            ELSE CopyFrom(rest, i, num_timings - 1, count, out)
    ELSE CopyFrom(timing, i + 1, num_timings, count, copied)

\* copy_ready_timings: count is *count on entry.
copy_ready_timings(timing, count) ==
    CopyFrom(timing, 1, IF count < Len(timing) THEN count ELSE Len(timing),
             count, <<>>)

\* A faulty GetPastPresentationTimingGOOGLE that refreshes the store before
\* it copies the ready records out.
GetPastPresentationTimingRefreshing(w, h, count, hasBuffer, env) ==
    LET n == get_num_ready_timings(EnableFrameTimestamps(w, h), h, env) IN
    IF hasBuffer
    THEN LET c == copy_ready_timings(n.w.swapchain[h].timing, count)
         IN [w |-> AppendAll([n.w EXCEPT !.swapchain[h].timing = c.timing],
                             [k \in 1..Len(c.timings) |->
                                 <<"get_values", h, c.timings[k].presentID>>]),
             result |-> VK_SUCCESS, count |-> Len(c.timings),
             timings |-> c.timings, returns |-> n.returns]
    ELSE [w |-> n.w, result |-> VK_SUCCESS, count |-> n.num_ready,
          timings |-> <<>>, returns |-> n.returns]

\* GetPastPresentationTimingGOOGLE: count is *count on entry, hasBuffer
\* whether timings is non-null.  The answer: the world, the result, *count
\* on return and the values written; returns is FALSE when the call never
\* comes back.
GetPastPresentationTimingGOOGLE(w, h, count, hasBuffer, env) ==
    LET w1 == EnableFrameTimestamps(w, h) IN
    IF hasBuffer
    THEN LET c == copy_ready_timings(w1.swapchain[h].timing, count)
         IN [w |-> AppendAll([w1 EXCEPT !.swapchain[h].timing = c.timing],
                             [k \in 1..Len(c.timings) |->
                                 <<"get_values", h, c.timings[k].presentID>>]),
             result |-> VK_SUCCESS, count |-> Len(c.timings),
             timings |-> c.timings, returns |-> TRUE]
    ELSE LET n == get_num_ready_timings(w1, h, env)
         IN [w |-> n.w, result |-> VK_SUCCESS, count |-> n.num_ready,
             timings |-> <<>>, returns |-> n.returns]

\* ------------------------------------------------------------------ present

kWorstToBest ==
    << VK_ERROR_DEVICE_LOST, VK_ERROR_SURFACE_LOST_KHR, VK_ERROR_OUT_OF_DATE_KHR,
       VK_ERROR_OUT_OF_DEVICE_MEMORY, VK_ERROR_OUT_OF_HOST_MEMORY, VK_SUBOPTIMAL_KHR >>

\* A faulty WorstFrom that takes the first result that is not VK_SUCCESS.
WorstFromFirstError(k, a, b) == IF a # VK_SUCCESS THEN a ELSE b

RECURSIVE WorstFrom(_, _, _)
WorstFrom(k, a, b) ==
    IF k > Len(kWorstToBest) THEN (IF a # VK_SUCCESS THEN a ELSE b)
    ELSE IF a = kWorstToBest[k] \/ b = kWorstToBest[k] THEN kWorstToBest[k]
    ELSE WorstFrom(k + 1, a, b)

WorstPresentResult(a, b) == WorstFrom(1, a, b)

\* Whether WorstPresentResult(a, b) gets past its ALOG_ASSERTs, which it
\* reaches when neither a nor b is in kWorstToBest.  A build without
\* assertions returns a, or b when a is VK_SUCCESS, all the same.
WorstPresentAsserts(a, b) ==
    \/ \E k \in 1..Len(kWorstToBest) : a = kWorstToBest[k] \/ b = kWorstToBest[k]
    \/ (a = VK_SUCCESS /\ b = VK_SUCCESS)

\* ANativeWindow::queueBuffer: the window takes the fence even when it fails.
QueueBuffer(w, s, buffer, fd, ok) ==
    LET w1 == Log(IF fd = NoFence THEN w ELSE DropFd(w, fd),
                  <<"queueBuffer", s, buffer, fd>>)
    IN IF ok THEN [w1 EXCEPT !.window[s].buffer_has_been_queued = TRUE] ELSE w1

\* The android_native_rect_t made of a VkRectLayerKHR.
NativeRect(rect) ==
    [left |-> rect.x, top |-> rect.y + rect.height,
     right |-> rect.x + rect.width, bottom |-> rect.y]

\* The incremental-present hint of an entry: the array of rects, which
\* holds nrects of them, grows when the hint has more (the hint is dropped
\* when that fails), and the window gets the converted rectangles.
SurfaceDamage(w, e, s, nrects) ==
    LET rcount == Len(e.region.rectangles)
        grow == rcount > nrects
        kept == IF grow /\ ~e.reallocOk THEN 0 ELSE rcount
        w1 == IF grow THEN Log(w, <<"pfnReallocation", rcount, e.reallocOk>>) ELSE w
    IN [w |-> Log(w1, <<"set_surface_damage", s,
                        [r \in 1..kept |-> NativeRect(e.region.rectangles[r])]>>),
        nrects |-> IF grow /\ e.reallocOk THEN rcount ELSE nrects]

\* A faulty PresentActive that queues the buffer and forgets the fence
\* the buffer was dequeued with.
PresentActiveKeepingFence(w, e, fence, nrects) ==
    LET h == e.swapchain
        i == e.imageIndex
        s == w.swapchain[h].surface
        w1 == QueueBuffer(w, s, Img(w, h, i).buffer, fence, e.queueOk)
    IN [w |-> SetImg(w1, h, i, [Img(w1, h, i) EXCEPT !.dequeued = FALSE]),
        result |-> IF e.queueOk THEN VK_SUCCESS ELSE VK_ERROR_OUT_OF_DATE_KHR,
        nrects |-> nrects]

\* The body of QueuePresentKHR's loop for an entry whose swapchain is the
\* surface's active one and whose release fence was made.
PresentActive(w, e, fence, nrects) ==
    LET h == e.swapchain
        i == e.imageIndex
        s == w.swapchain[h].surface
        damage == IF e.region.given THEN SurfaceDamage(w, e, s, nrects)
                  ELSE [w |-> w, nrects |-> nrects]
        timed == IF e.time.given THEN EnrollTiming(damage.w, h, e.time) ELSE damage.w
        w1 == QueueBuffer(timed, s, Img(timed, h, i).buffer, fence, e.queueOk)
        result == IF e.queueOk THEN VK_SUCCESS
                  ELSE WorstPresentResult(VK_SUCCESS, VK_ERROR_OUT_OF_DATE_KHR)
        w2 == IF Img(w1, h, i).dequeue_fence >= 0
              THEN SetImg(CloseFd(w1, Img(w1, h, i).dequeue_fence), h, i,
                          [Img(w1, h, i) EXCEPT !.dequeue_fence = NoFence])
              ELSE w1
    IN [w |-> SetImg(w2, h, i, [Img(w2, h, i) EXCEPT !.dequeued = FALSE]),
        result |-> result, nrects |-> damage.nrects]

\* A faulty PresentInactive that lets the driver's error stand.
PresentInactiveKeepingError(w, e, fence) ==
    [w |-> ReleaseSwapchainImage(w, e.swapchain, e.imageIndex, NoWindow, fence),
     result |-> IF e.driver # VK_SUCCESS THEN e.driver ELSE VK_ERROR_OUT_OF_DATE_KHR]

\* The body of the loop for an entry whose swapchain is not the surface's
\* active one: the image is released without a window, and the entry's
\* result is out-of-date whatever the driver answered.
PresentInactive(w, e, fence) ==
    [w |-> ReleaseSwapchainImage(w, e.swapchain, e.imageIndex, NoWindow, fence),
     result |-> VK_ERROR_OUT_OF_DATE_KHR]

\* A faulty PresentOne that releases the image of a failed present and
\* leaves the swapchain its surface's active one.
PresentOneNotOrphaning(w, e, nrects) ==
    LET h == e.swapchain
        i == e.imageIndex
        s == w.swapchain[h].surface
        fence == IF e.driver = VK_SUCCESS /\ e.fence
                 THEN ReleaseFence(Img(w, h, i).image) ELSE NoFence
        w1 == Log(OpenFd(w, fence),
                  <<"QueueSignalReleaseImageANDROID", Img(w, h, i).image, fence>>)
        Escalate(a) ==
            IF a.result # VK_SUCCESS
            THEN [w |-> ReleaseSwapchainImage(a.w, h, i, s, fence),
                  result |-> a.result, nrects |-> a.nrects]
            ELSE a
        Inactive(r) == [w |-> r.w, result |-> r.result, nrects |-> nrects]
    IN
    IF w1.surface[s] = h
    THEN Escalate(IF e.driver = VK_SUCCESS THEN PresentActive(w1, e, fence, nrects)
                  ELSE [w |-> w1, result |-> e.driver, nrects |-> nrects])
    ELSE Inactive(PresentInactive(w1, e, fence))

\* One iteration of QueuePresentKHR's loop.  e: swapchain, imageIndex, the
\* hints region and time (given says whether there is one), and the
\* environment's answers: driver, the result of
\* QueueSignalReleaseImageANDROID; fence, whether it made a release fence
\* fd; reallocOk, whether the array of rects can grow; queueOk, whether
\* queueBuffer succeeds.  nrects is the size of the array of rects.
PresentOne(w, e, nrects) ==
    LET h == e.swapchain
        i == e.imageIndex
        s == w.swapchain[h].surface
        fence == IF e.driver = VK_SUCCESS /\ e.fence
                 THEN ReleaseFence(Img(w, h, i).image) ELSE NoFence
        w1 == Log(OpenFd(w, fence),
                  <<"QueueSignalReleaseImageANDROID", Img(w, h, i).image, fence>>)
        Escalate(a) ==
            IF a.result # VK_SUCCESS
            THEN [w |-> OrphanSwapchain(ReleaseSwapchainImage(a.w, h, i, s, fence), h),
                  result |-> a.result, nrects |-> a.nrects]
            ELSE a
        Inactive(r) == [w |-> r.w, result |-> r.result, nrects |-> nrects]
    IN
    IF w1.surface[s] = h
    THEN Escalate(IF e.driver = VK_SUCCESS THEN PresentActive(w1, e, fence, nrects)
                  ELSE [w |-> w1, result |-> e.driver, nrects |-> nrects])
    ELSE Inactive(PresentInactive(w1, e, fence))

\* QueuePresentKHR over the entries k, k+1, ... of the present info;
\* acc carries the world, pResults, final_result, nrects, and whether the
\* assertions of every merge so far held.
RECURSIVE PresentFrom(_, _, _)
PresentFrom(acc, entries, k) ==
    IF k > Len(entries) THEN acc
    ELSE LET Merged(one) ==
                [w |-> one.w,
                 pResults |-> Append(acc.pResults, one.result),
                 result |-> IF one.result # acc.result
                            THEN WorstPresentResult(acc.result, one.result)
                            ELSE acc.result,
                 asserts |-> acc.asserts /\ (one.result # acc.result =>
                                WorstPresentAsserts(acc.result, one.result)),
                 nrects |-> one.nrects]
         IN PresentFrom(Merged(PresentOne(acc.w, entries[k], acc.nrects)),
                        entries, k + 1)

\* QueuePresentKHR: the array of rects is freed at the end if there is one.
QueuePresentKHR(w, entries) ==
    LET Freed(r) ==
            [w |-> IF r.nrects > 0 THEN Log(r.w, <<"pfnFree", r.nrects>>) ELSE r.w,
             pResults |-> r.pResults, result |-> r.result, asserts |-> r.asserts]
    IN Freed(PresentFrom([w |-> w, pResults |-> <<>>, result |-> VK_SUCCESS,
                          asserts |-> TRUE, nrects |-> 0], entries, 1))

\* ------------------------------------------------------------------ queries

GetSwapchainStatusKHR(w, h) ==
    IF w.surface[w.swapchain[h].surface] # h
    THEN VK_ERROR_OUT_OF_DATE_KHR ELSE VK_SUCCESS

VK_COLOR_SPACE_SRGB_NONLINEAR_KHR == "SRGB_NONLINEAR"

kFormats ==
    << [format |-> VK_FORMAT_R8G8B8A8_UNORM, colorSpace |-> VK_COLOR_SPACE_SRGB_NONLINEAR_KHR],
       [format |-> VK_FORMAT_R8G8B8A8_SRGB, colorSpace |-> VK_COLOR_SPACE_SRGB_NONLINEAR_KHR],
       [format |-> VK_FORMAT_R5G6B5_UNORM_PACK16,
        colorSpace |-> VK_COLOR_SPACE_SRGB_NONLINEAR_KHR] >>

\* A faulty GetPhysicalDeviceSurfaceFormatsKHR that reports success for a
\* buffer that is too small.
GetPhysicalDeviceSurfaceFormatsKHRSuccess(count, hasBuffer) ==
    LET kNumFormats == Len(kFormats)
        n == IF count < kNumFormats THEN count ELSE kNumFormats
    IN IF hasBuffer
       THEN [result |-> VK_SUCCESS, count |-> n, formats |-> SubSeq(kFormats, 1, n)]
       ELSE [result |-> VK_SUCCESS, count |-> kNumFormats, formats |-> <<>>]

\* GetPhysicalDeviceSurfaceFormatsKHR: count is *count on entry, hasBuffer
\* whether formats is non-null.  The answer: result, *count on return and
\* the formats written.
GetPhysicalDeviceSurfaceFormatsKHR(count, hasBuffer) ==
    LET kNumFormats == Len(kFormats)
        n == IF count < kNumFormats THEN count ELSE kNumFormats
    IN IF hasBuffer
       THEN [result |-> IF count < kNumFormats THEN VK_INCOMPLETE ELSE VK_SUCCESS,
             count |-> n, formats |-> SubSeq(kFormats, 1, n)]
       ELSE [result |-> VK_SUCCESS, count |-> kNumFormats, formats |-> <<>>]

kModes ==
    << VK_PRESENT_MODE_MAILBOX_KHR, VK_PRESENT_MODE_FIFO_KHR,
       VK_PRESENT_MODE_FRONT_BUFFERED_DEMAND_REFRESH_KHR,
       VK_PRESENT_MODE_FRONT_BUFFERED_CONTINUOUS_REFRESH_KHR >>

\* GetPhysicalDeviceSurfacePresentModesKHR, in the same way.
GetPhysicalDeviceSurfacePresentModesKHR(count, hasBuffer) ==
    LET kNumModes == Len(kModes)
        n == IF count < kNumModes THEN count ELSE kNumModes
    IN IF hasBuffer
       THEN [result |-> IF count < kNumModes THEN VK_INCOMPLETE ELSE VK_SUCCESS,
             count |-> n, modes |-> SubSeq(kModes, 1, n)]
       ELSE [result |-> VK_SUCCESS, count |-> kNumModes, modes |-> <<>>]

\* A faulty GetSwapchainImagesKHR that stops one handle short of a buffer
\* that is larger than needed.
GetSwapchainImagesKHRShort(w, h, count, hasBuffer) ==
    LET num_images == w.swapchain[h].num_images
        n == IF count <= num_images THEN count ELSE num_images - 1
    IN IF hasBuffer
       THEN [result |-> IF count < num_images THEN VK_INCOMPLETE ELSE VK_SUCCESS,
             count |-> n,
             images |-> [i \in 0..(n - 1) |-> Img(w, h, i).image]]
       ELSE [result |-> VK_SUCCESS, count |-> num_images, images |-> <<>>]

\* GetSwapchainImagesKHR: count is *count on entry, hasBuffer whether
\* images is non-null.  The answer: result, *count on return and the
\* handles written.
GetSwapchainImagesKHR(w, h, count, hasBuffer) ==
    LET num_images == w.swapchain[h].num_images
        n == IF count < num_images THEN count ELSE num_images
    IN IF hasBuffer
       THEN [result |-> IF count < num_images THEN VK_INCOMPLETE ELSE VK_SUCCESS,
             count |-> n,
             images |-> [i \in 0..(n - 1) |-> Img(w, h, i).image]]
       ELSE [result |-> VK_SUCCESS, count |-> num_images, images |-> <<>>]

\* ------------------------------------------------------------ specification

\* A present without a damage-region hint, and one without a timing hint.
NoRegion == [given |-> FALSE, rectangles |-> <<>>]
NoTime == [given |-> FALSE, presentID |-> 0, desiredPresentTime |-> 0]

PresentModes ==
    {VK_PRESENT_MODE_FIFO_KHR, VK_PRESENT_MODE_MAILBOX_KHR,
     VK_PRESENT_MODE_FRONT_BUFFERED_DEMAND_REFRESH_KHR,
     VK_PRESENT_MODE_FRONT_BUFFERED_CONTINUOUS_REFRESH_KHR}

\* The step of ConfigCalls that asks for MIN_UNDEQUEUED_BUFFERS.
MinUndequeuedQueryCall == 12

\* The inputs the lifecycle specification draws from: one kind of create
\* info, every kind of failure, every kind of answer of the window and the
\* driver.
Lifecycle ==
    [surfaces |-> {"surfA"},
     minImageCounts |-> {2},
     presentModes |-> {VK_PRESENT_MODE_FIFO_KHR},
     queryValues |-> {1},
     configFails |-> {FirstFallibleCall, MinUndequeuedQueryCall},
     laterFails |-> TRUE,
     fences |-> {"none", "first", "all"},
     driverErrors |-> {VK_ERROR_DEVICE_LOST},
     regions |-> {NoRegion},
     replaces |-> TRUE,
     queueFails |-> TRUE,
     presentIds |-> {},
     untimedIds |-> {},
     frameTimes |-> {},
     preTransforms |-> {VK_SURFACE_TRANSFORM_IDENTITY_BIT_KHR}]

\* Creations that differ in what decides the number of images: every
\* present mode, two image counts, two answers of the window.
Sizes ==
    [surfaces |-> {"surfA"},
     minImageCounts |-> {2, 3},
     presentModes |-> PresentModes,
     queryValues |-> {1, 2},
     configFails |-> {},
     laterFails |-> FALSE,
     fences |-> {"none", "all"},
     driverErrors |-> {},
     regions |-> {NoRegion},
     replaces |-> TRUE,
     queueFails |-> TRUE,
     presentIds |-> {},
     untimedIds |-> {},
     frameTimes |-> {},
     preTransforms |-> {VK_SURFACE_TRANSFORM_IDENTITY_BIT_KHR}]

\* Creations that fail: at every step of the configuration, at the
\* allocation, at every buffer and every image.
Failures ==
    [surfaces |-> {"surfA"},
     minImageCounts |-> {2},
     presentModes |-> {VK_PRESENT_MODE_FIFO_KHR,
                       VK_PRESENT_MODE_FRONT_BUFFERED_CONTINUOUS_REFRESH_KHR},
     queryValues |-> {2},
     configFails |-> FirstFallibleCall..NUM_BUFFER_SLOTS,
     laterFails |-> TRUE,
     fences |-> {"none", "all"},
     driverErrors |-> {VK_ERROR_OUT_OF_DEVICE_MEMORY},
     regions |-> {NoRegion},
     replaces |-> TRUE,
     queueFails |-> TRUE,
     presentIds |-> {},
     untimedIds |-> {},
     frameTimes |-> {},
     preTransforms |-> {VK_SURFACE_TRANSFORM_IDENTITY_BIT_KHR}]

CreateInfos(w, in) ==
    [surface : in.surfaces,
     oldSwapchain : {VK_NULL_HANDLE} \cup {h \in Handles : in.replaces /\ Live(w, h)},
     minImageCount : in.minImageCounts,
     presentMode : in.presentModes,
     preTransform : in.preTransforms,
     imageFormat : {VK_FORMAT_R8G8B8A8_UNORM}]

\* Which of the first n dequeued buffers come with a fence fd.
FencePatterns(n, in) ==
    {IF f = "all" THEN 0..(n - 1) ELSE IF f = "first" THEN {0} \cap (0..(n - 1)) ELSE {} :
        f \in in.fences}

NoCreateEnv ==
    [query_value |-> 0, fail |-> <<"none">>, fences |-> {}, error |-> VK_SUCCESS,
     min_rdur |-> 1]

\* What the environment can answer during CreateSwapchainKHR(ci); it is
\* not asked at all when the oldSwapchain check fails.
CreateEnvs(w, ci, in) ==
    IF OldSwapchainMismatch(w, ci) THEN {NoCreateEnv}
    ELSE UNION {
        LET n == NumImages(ci, q)
            none == [NoCreateEnv EXCEPT !.query_value = q]
            later == IF in.laterFails THEN 0..(n - 1) ELSE {}
        IN {[none EXCEPT !.fail = <<"config", k>>] :
                k \in in.configFails \cap (1..Len(ConfigCalls(ci, q)))}
           \cup (IF in.laterFails THEN {[none EXCEPT !.fail = <<"alloc">>]} ELSE {})
           \cup {[none EXCEPT !.fences = f] : f \in FencePatterns(n, in)}
           \cup UNION {{[none EXCEPT !.fail = <<"dequeueBuffer", i>>, !.fences = f] :
                           f \in FencePatterns(i, in)} : i \in later}
           \cup UNION {{[none EXCEPT !.fail = <<"CreateImage", i>>, !.fences = f,
                                      !.error = e] :
                           f \in FencePatterns(i + 1, in), e \in in.driverErrors} :
                        i \in later}
        : q \in in.queryValues }

\* The fds a call's log shows leaving this layer: closed, or taken by the
\* window with a buffer.
GivenUp(calls) ==
    {IF calls[k][1] = "close" THEN calls[k][2]
     ELSE IF calls[k][1] \in {"cancelBuffer", "queueBuffer"} THEN calls[k][4]
     ELSE NoFence : k \in 1..Len(calls)} \ {NoFence}

\* The buffers a call's log shows handed to queueBuffer.
Queued(calls) ==
    {calls[k][3] : k \in {j \in 1..Len(calls) : calls[j][1] = "queueBuffer"}}

\* The history of a store nothing was added to, and what is kept once an
\* ID came out of order, a record was copied out, or the swapchain was
\* orphaned.
NoneEnrolled == [ids |-> {}, tracked |-> TRUE]
Untracked == [ids |-> {}, tracked |-> FALSE]

\* The history of the timing stores after the calls of a log: timing.add
\* adds a presentID, get_values copies a record out.
RECURSIVE EnrolmentFrom(_, _, _)
EnrolmentFrom(en, calls, k) ==
    IF k > Len(calls) THEN en
    ELSE LET c == calls[k]
             h == c[2]
         IN EnrolmentFrom(
                IF c[1] = "timing.add"
                THEN [en EXCEPT ![h] =
                        IF @.tracked /\ \A x \in @.ids : x < c[3]
                        THEN [@ EXCEPT !.ids = @ \cup {c[3]}] ELSE Untracked]
                ELSE IF c[1] = "get_values" THEN [en EXCEPT ![h] = Untracked]
                ELSE en,
                calls, k + 1)

Enrolment(en, calls) == EnrolmentFrom(en, calls, 1)

\* The state after a call that left the world after: the call is evaluated
\* once, whatever the number of variables it changes.
Commit(after, l) ==
    \E w \in {after} :
        /\ last.result # SIGSEGV
        /\ surface' = w.surface
        /\ swapchain' = w.swapchain
        /\ window' = w.window
        /\ open_fds' = w.open_fds
        /\ fd_error' = w.fd_error
        /\ enrolled' = [h \in Handles |->
                            IF w.swapchain[h].state = "free" THEN NoneEnrolled
                            ELSE IF w.surface[w.swapchain[h].surface] # h THEN Untracked
                            ELSE Enrolment(enrolled, w.calls)[h]]
        /\ last' = [l EXCEPT !.fds = GivenUp(w.calls), !.queued = Queued(w.calls)]

Op(op, h, arg, result, out) ==
    [op |-> op, swapchain |-> h, arg |-> arg, result |-> result, out |-> out,
     fds |-> {}, queued |-> {}]

Init ==
    /\ surface = [s \in SurfaceIds |-> VK_NULL_HANDLE]
    /\ swapchain = [h \in Handles |-> NoSwapchain]
    /\ window = [s \in SurfaceIds |-> NewWindow]
    /\ open_fds = {}
    /\ fd_error = FALSE
    /\ retired = {}
    /\ enrolled = [h \in Handles |-> NoneEnrolled]
    /\ last = Op("none", VK_NULL_HANDLE, <<>>, VK_SUCCESS, <<>>)

\* The calls of CreateSwapchainKHR that can be made in w: the create info
\* with what the environment answers.  A call that gets as far as
\* allocating needs memory for the object.
CreateCalls(w, in) ==
    UNION {{<<ci, env>> : env \in {e \in CreateEnvs(w, ci, in) :
                (~OldSwapchainMismatch(w, ci) /\ e.fail[1] # "config")
                    => FreeHandles(w) # {}}} :
           ci \in CreateInfos(w, in)}

CreateSwapchain(in) ==
    \E c \in CreateCalls(World, in) :
        \E ci \in {c[1]}, r \in {CreateSwapchainKHR(World, c[1], c[2])} :
           /\ Commit(r.w, Op("CreateSwapchain", r.handle, ci, r.result, <<>>))
           /\ retired' = IF r.result # VK_ERROR_NATIVE_WINDOW_IN_USE_KHR
                         THEN retired \cup ({ci.oldSwapchain} \ {VK_NULL_HANDLE})
                         ELSE retired

DestroySwapchain ==
    \E h \in Handles, returns \in BOOLEAN :
        /\ Live(World, h)
        /\ returns \/ DestroyCallsNullWindow(World, h)
        /\ Commit(DestroySwapchainKHRWith(World, h, returns),
                  Op("DestroySwapchain", h, <<>>,
                     IF returns THEN VK_SUCCESS ELSE SIGSEGV, <<>>))
        /\ retired' = IF returns THEN retired \ {h} ELSE retired

NoAcquireEnv ==
    [dequeue |-> "fail", buffer |-> NoBuffer, fence |-> FALSE, dup |-> TRUE,
     driver |-> VK_SUCCESS]

\* What the window and the driver can answer during AcquireNextImageKHR(h):
\* the window fails, or hands out a buffer it holds (one of the swapchain's
\* that is not dequeued, or one the swapchain does not know), with or
\* without a fence (without, when in.fences is {"none"}); dup() of a fence
\* works or not; the driver accepts the image or not.
AcquireEnvs(w, h, in) ==
    LET s == w.swapchain[h].surface IN
    IF w.surface[s] # h THEN {NoAcquireEnv}
    ELSE {NoAcquireEnv} \cup
         (IF ~CanDequeue(w, s) THEN {}
          ELSE LET got == [dequeue : {"ok"},
                           buffer : {Img(w, h, i).buffer :
                                       i \in {j \in Slots(w, h) : ~Img(w, h, j).dequeued}}
                                    \cup {ForeignBuffer},
                           fence : {f # "none" : f \in in.fences},
                           dup : BOOLEAN,
                           driver : {VK_SUCCESS} \cup in.driverErrors]
               IN {e \in got : /\ (~e.fence => e.dup)
                               /\ (e.buffer = ForeignBuffer =>
                                     e.dup /\ e.driver = VK_SUCCESS)})

AcquireNextImage(in) ==
    \E h \in Handles :
        /\ Live(World, h)
        /\ \E env \in AcquireEnvs(World, h, in) :
             \E r \in {AcquireNextImageKHR(World, h, env)} :
                Commit(r.w, Op("AcquireNextImage", h, <<>>, r.result, r.index))
        /\ UNCHANGED retired

\* The timing hint an application gives with presentID: every present has
\* its own desiredPresentTime.
TimeHint(presentID) ==
    [given |-> TRUE, presentID |-> presentID,
     desiredPresentTime |-> presentID % TimeModulus]

\* The hint of presentID under the inputs in: the presents of
\* in.untimedIds ask for no particular time (desiredPresentTime 0).
TimeHintOf(in, presentID) ==
    [TimeHint(presentID) EXCEPT
        !.desiredPresentTime = IF presentID \in in.untimedIds THEN 0 ELSE @]

\* The largest presentID in a store, 0 in an empty one.
Largest(timing) ==
    IF timing = <<>> THEN 0
    ELSE CHOOSE x \in {timing[k].presentID : k \in 1..Len(timing)} :
            \A k \in 1..Len(timing) : timing[k].presentID <= x

\* The presentIDs the application gives to a present on swapchain h: the
\* one after the largest in the store, the largest again, or one of the
\* first three.
AppIds(w, h, in) ==
    {id \in in.presentIds :
        id <= 3 \/ id \in {Largest(w.swapchain[h].timing),
                           Largest(w.swapchain[h].timing) + 1}}

\* The entries an application may present: an image it has acquired, of a
\* swapchain it has not destroyed, with the hints of in.regions and
\* in.presentIds; with them, what the driver, the allocator and the window
\* answer.
PresentEntries(w, in) ==
    LET all == UNION {[swapchain : {h},
                       imageIndex : {i \in Slots(w, h) : Img(w, h, i).dequeued},
                       region : in.regions,
                       time : {NoTime} \cup {TimeHintOf(in, id) : id \in AppIds(w, h, in)},
                       driver : {VK_SUCCESS} \cup in.driverErrors,
                       fence : {f # "none" : f \in in.fences},
                       reallocOk : BOOLEAN,
                       queueOk : {TRUE} \cup {~in.queueFails}] : h \in {x \in Handles : Live(w, x)}}
    IN {e \in all :
          /\ (e.driver # VK_SUCCESS => ~e.fence /\ e.queueOk)
          /\ (w.surface[w.swapchain[e.swapchain].surface] # e.swapchain => e.queueOk)
          /\ (~e.reallocOk =>
                 /\ e.driver = VK_SUCCESS
                 /\ w.surface[w.swapchain[e.swapchain].surface] = e.swapchain
                 /\ Len(e.region.rectangles) > 0)}

QueuePresent(in) ==
    \E e \in PresentEntries(World, in) :
        \E r \in {QueuePresentKHR(World, <<e>>)} :
           /\ Commit(r.w, Op("QueuePresent", e.swapchain, <<e.imageIndex>>, r.result,
                             r.pResults))
           /\ UNCHANGED retired

GetSwapchainStatus ==
    \E h \in Handles :
        /\ Live(World, h)
        /\ Commit(World, Op("GetSwapchainStatus", h, <<>>,
                            GetSwapchainStatusKHR(World, h), <<>>))
        /\ UNCHANGED retired

\* The application asks for the images with room for count handles.
GetSwapchainImages ==
    \E h \in Handles, count \in {1, NUM_BUFFER_SLOTS} :
        /\ Live(World, h)
        /\ \E r \in {GetSwapchainImagesKHR(World, h, count, TRUE)} :
              Commit(World, Op("GetSwapchainImages", h, <<count>>, r.result, r.images))
        /\ UNCHANGED retired

\* The lifecycle of swapchains on one surface.
Next ==
    \/ CreateSwapchain(Lifecycle)
    \/ DestroySwapchain
    \/ AcquireNextImage(Lifecycle)
    \/ QueuePresent(Lifecycle)
    \/ GetSwapchainStatus

Spec == Init /\ [][Next]_vars

\* Creation with every input, on swapchains that are never acquired from.
NextCreate ==
    \/ CreateSwapchain(Sizes)
    \/ CreateSwapchain(Failures)
    \/ DestroySwapchain
    \/ GetSwapchainImages

SpecCreate == Init /\ [][NextCreate]_vars

\* Swapchains on two surfaces, created and acquired from without
\* failures.
Surfaces ==
    [surfaces |-> SurfaceIds,
     minImageCounts |-> {2},
     presentModes |-> {VK_PRESENT_MODE_FIFO_KHR},
     queryValues |-> {1},
     configFails |-> {},
     laterFails |-> FALSE,
     fences |-> {"none"},
     driverErrors |-> {},
     regions |-> {NoRegion},
     replaces |-> TRUE,
     queueFails |-> TRUE,
     presentIds |-> {},
     untimedIds |-> {},
     frameTimes |-> {},
     preTransforms |-> {VK_SURFACE_TRANSFORM_IDENTITY_BIT_KHR}]

\* Result codes a driver may answer that kWorstToBest does not list.
VK_ERROR_TOO_MANY_OBJECTS == "VK_ERROR_TOO_MANY_OBJECTS"

\* Presents whose release-fence call the driver may refuse with one of two
\* codes, and whose queueBuffer may fail.
Presents ==
    [Surfaces EXCEPT !.driverErrors =
        {VK_ERROR_INITIALIZATION_FAILED, VK_ERROR_TOO_MANY_OBJECTS}]

\* The present infos of one entry, or of two for different swapchains.
PresentInfos(w, in) ==
    LET es == PresentEntries(w, in)
    IN {<<e>> : e \in es}
       \cup {<<p[1], p[2]>> : p \in {q \in es \X es : q[1].swapchain # q[2].swapchain}}

QueuePresentMany(in) ==
    \E entries \in PresentInfos(World, in) :
        \E r \in {QueuePresentKHR(World, entries)} :
           /\ Commit(r.w, Op("QueuePresent", entries[1].swapchain,
                             [k \in 1..Len(entries) |-> entries[k].swapchain],
                             r.result, r.pResults))
           /\ UNCHANGED retired

\* Presents of images of one or two swapchains on two surfaces.
NextPresent ==
    \/ CreateSwapchain(Surfaces)
    \/ DestroySwapchain
    \/ AcquireNextImage(Surfaces)
    \/ QueuePresentMany(Presents)

SpecPresent == Init /\ [][NextPresent]_vars

\* One swapchain on one surface, nothing failing; presents with and
\* without a timing hint; a window that has the timestamps of the presents
\* with desiredPresentTime 1 and 2.
Timed ==
    [surfaces |-> {"surfA"},
     minImageCounts |-> {2},
     presentModes |-> {VK_PRESENT_MODE_FIFO_KHR},
     queryValues |-> {1},
     configFails |-> {},
     laterFails |-> FALSE,
     fences |-> {"none"},
     driverErrors |-> {},
     regions |-> {NoRegion},
     replaces |-> FALSE,
     queueFails |-> FALSE,
     presentIds |-> 1..MaxPresentId,
     untimedIds |-> {},
     frameTimes |-> {1, 2},
     preTransforms |-> {VK_SURFACE_TRANSFORM_IDENTITY_BIT_KHR}]

\* What the window can answer about one frame: the timestamps of the
\* present with a desired time of in.frameTimes, with or without the time
\* it was shown at.
FrameAnswers(in) ==
    [ok : {TRUE}, desired : in.frameTimes, actual : {0, 9}, render : {3}, latch : {7}]

\* The window's frame history from MIN_NUM_FRAMES_AGO on: no frame, one,
\* or one behind a frame of another present.
FrameHistories(in) ==
    {<<>>} \cup {<<x>> : x \in FrameAnswers(in)}
           \cup {<<[x EXCEPT !.desired = 0], x>> : x \in FrameAnswers(in)}

\* The application asks for the number of ready records, or for the
\* records with room for count of them.
GetPastPresentationTiming(in) ==
    \E h \in Handles, count \in {0, MAX_TIMING_INFOS}, hasBuffer \in BOOLEAN :
        /\ Live(World, h)
        /\ hasBuffer <=> count > 0
        /\ \E env \in [frames : IF hasBuffer THEN {<<>>} ELSE FrameHistories(in)] :
             \E r \in {GetPastPresentationTimingGOOGLE(World, h, count, hasBuffer, env)} :
                /\ r.returns
                /\ Commit(r.w, Op("GetPastPresentationTiming", h,
                                  <<count, hasBuffer>>, r.result, r.count))
        /\ UNCHANGED retired

\* Presents with timing hints on one surface, and the queries of the
\* timing store.
NextTiming ==
    \/ CreateSwapchain(Timed)
    \/ AcquireNextImage(Timed)
    \/ QueuePresent(Timed)
    \/ GetPastPresentationTiming(Timed)

SpecTiming == Init /\ [][NextTiming]_vars

\* Presents of which the first two ask for no particular time and which
\* the driver may refuse.
Untimed == [Timed EXCEPT !.untimedIds = {1, 2}, !.driverErrors = {VK_ERROR_DEVICE_LOST}]

NextUntimed ==
    \/ CreateSwapchain(Untimed)
    \/ AcquireNextImage(Untimed)
    \/ QueuePresent(Untimed)
    \/ GetPastPresentationTiming(Untimed)

SpecUntimed == Init /\ [][NextUntimed]_vars

\* The record of the present with presentID as the store can hold it:
\* as it was added ("new"), with the window's timestamps of a frame not
\* yet shown ("latched"), or with all four and the values calculated from
\* them ("ready").
StoredRecord(presentID, kind, rdur) ==
    LET ti == TimingInfo(TimeHint(presentID))
        filled == [ti EXCEPT !.timestamp_desired_present_time = ti.desiredPresentTime,
                             !.timestamp_render_complete_time = 3,
                             !.timestamp_composition_latch_time = 7]
    IN CASE kind = "new" -> ti
         [] kind = "latched" -> filled
         [] kind = "ready" ->
                Calculate([filled EXCEPT !.timestamp_actual_present_time = 9], rdur).ti

\* The stores with records of the presentIDs of ids, each of any kind.
RECURSIVE StoresOf(_, _)
StoresOf(ids, rdur) ==
    IF ids = {} THEN {<<>>}
    ELSE LET id == CHOOSE x \in ids : \A y \in ids : y <= x
         IN {Append(st, StoredRecord(id, kind, rdur)) :
                st \in StoresOf(ids \ {id}, rdur), kind \in {"new", "latched", "ready"}}

\* The world in which the one swapchain that Timed creates holds store.
WorldWithStore(store) ==
    LET empty == [surface |-> [s \in SurfaceIds |-> VK_NULL_HANDLE],
                  swapchain |-> [h \in Handles |-> NoSwapchain],
                  window |-> [s \in SurfaceIds |-> NewWindow],
                  open_fds |-> {}, fd_error |-> FALSE, calls |-> <<>>]
        c == CHOOSE x \in CreateCalls(empty, Timed) : TRUE
        r == CreateSwapchainKHR(empty, c[1], c[2])
    IN [EnableFrameTimestamps(r.w, r.handle) EXCEPT
           !.swapchain[r.handle].timing = store, !.calls = <<>>]

\* A swapchain with a store of records of some of the presentIDs up to
\* MaxStoredId.
InitDrain ==
    \E ids \in SUBSET (1..MaxStoredId) :
        \E store \in StoresOf(ids, 1) :
            \E w \in {WorldWithStore(store)} :
               /\ surface = w.surface
               /\ swapchain = w.swapchain
               /\ window = w.window
               /\ open_fds = w.open_fds
               /\ fd_error = w.fd_error
               /\ retired = {}
               /\ enrolled = [h \in Handles |->
                                 IF Live(w, h) THEN Untracked ELSE NoneEnrolled]
               /\ last = Op("none", VK_NULL_HANDLE, <<>>, VK_SUCCESS, <<>>)

\* The application asks for the ready records with room for count of them.
CopyTimings ==
    \E h \in Handles, count \in 0..(MaxStoredId + 1) :
        /\ Live(World, h)
        /\ \E r \in {GetPastPresentationTimingGOOGLE(World, h, count, TRUE,
                                                      [frames |-> <<>>])} :
              Commit(r.w, Op("CopyTimings", h, <<count, Len(swapchain[h].timing)>>,
                             r.result, [count |-> r.count, timings |-> r.timings]))
        /\ UNCHANGED retired

NextDrain == CopyTimings

SpecDrain == InitDrain /\ [][NextDrain]_vars

\* The results WorstPresentResult is made for: those of kWorstToBest and
\* VK_SUCCESS.
PresentResults == {kWorstToBest[k] : k \in 1..Len(kWorstToBest)} \cup {VK_SUCCESS}

\* Three present results to merge.
InitWorst ==
    /\ surface = [s \in SurfaceIds |-> VK_NULL_HANDLE]
    /\ swapchain = [h \in Handles |-> NoSwapchain]
    /\ window = [s \in SurfaceIds |-> NewWindow]
    /\ open_fds = {}
    /\ fd_error = FALSE
    /\ retired = {}
    /\ enrolled = [h \in Handles |-> NoneEnrolled]
    /\ last \in {Op("results", VK_NULL_HANDLE, <<a, b, c>>, VK_SUCCESS, <<>>) :
                    a \in PresentResults, b \in PresentResults, c \in PresentResults}

\* The results a, b, c are merged as a with b, b with a, (a with b) with
\* c, and a with (b with c).
MergeResults ==
    /\ last.op = "results"
    /\ LET a == last.arg[1]
           b == last.arg[2]
           c == last.arg[3]
       IN last' = Op("WorstPresentResult", VK_NULL_HANDLE, last.arg, VK_SUCCESS,
                     << WorstPresentResult(a, b),
                        WorstPresentResult(b, a),
                        WorstPresentResult(WorstPresentResult(a, b), c),
                        WorstPresentResult(a, WorstPresentResult(b, c)) >>)
    /\ UNCHANGED <<surface, swapchain, window, open_fds, fd_error, retired, enrolled>>

NextWorst == MergeResults

SpecWorst == InitWorst /\ [][NextWorst]_vars

\* Creation with every preTransform, with a window that fails any one of
\* the configuration calls or none.
Transforms ==
    [surfaces |-> {"surfA"},
     minImageCounts |-> {2},
     presentModes |-> {VK_PRESENT_MODE_FIFO_KHR},
     queryValues |-> {1},
     configFails |-> FirstFallibleCall..NUM_BUFFER_SLOTS,
     laterFails |-> FALSE,
     fences |-> {"none"},
     driverErrors |-> {},
     regions |-> {NoRegion},
     replaces |-> TRUE,
     queueFails |-> FALSE,
     presentIds |-> {},
     untimedIds |-> {},
     frameTimes |-> {},
     preTransforms |-> SurfaceTransforms]

NextConfigure ==
    \/ CreateSwapchain(Transforms)
    \/ DestroySwapchain

SpecConfigure == Init /\ [][NextConfigure]_vars

\* Swapchains on one surface that replace one another, with and without
\* fences; no call fails.
Replaced ==
    [surfaces |-> {"surfA"},
     minImageCounts |-> {2},
     presentModes |-> {VK_PRESENT_MODE_FIFO_KHR},
     queryValues |-> {1},
     configFails |-> {},
     laterFails |-> FALSE,
     fences |-> {"none", "all"},
     driverErrors |-> {VK_ERROR_DEVICE_LOST},
     regions |-> {NoRegion},
     replaces |-> TRUE,
     queueFails |-> FALSE,
     presentIds |-> {},
     untimedIds |-> {},
     frameTimes |-> {},
     preTransforms |-> {VK_SURFACE_TRANSFORM_IDENTITY_BIT_KHR}]

\* Presents of images of the active swapchain, of one it replaced, or of
\* both in one call.
NextReplace ==
    \/ CreateSwapchain(Replaced)
    \/ DestroySwapchain
    \/ AcquireNextImage(Replaced)
    \/ QueuePresentMany(Replaced)

SpecReplace == Init /\ [][NextReplace]_vars

\* Swapchains that stop being their surface's active one, by replacement
\* or by a present the driver refuses, with records in the timing store.
Orphaned ==
    [surfaces |-> {"surfA"},
     minImageCounts |-> {2},
     presentModes |-> {VK_PRESENT_MODE_FIFO_KHR},
     queryValues |-> {1},
     configFails |-> {},
     laterFails |-> FALSE,
     fences |-> {"none", "all"},
     driverErrors |-> {VK_ERROR_DEVICE_LOST},
     regions |-> {NoRegion},
     replaces |-> TRUE,
     queueFails |-> FALSE,
     presentIds |-> {1},
     untimedIds |-> {},
     frameTimes |-> {},
     preTransforms |-> {VK_SURFACE_TRANSFORM_IDENTITY_BIT_KHR}]

NextOrphan ==
    \/ CreateSwapchain(Orphaned)
    \/ DestroySwapchain
    \/ AcquireNextImage(Orphaned)
    \/ QueuePresent(Orphaned)

SpecOrphan == Init /\ [][NextOrphan]_vars

\* Swapchains whose window keeps one to three buffers undequeued; nothing
\* fails and no swapchain replaces another.
Dequeues ==
    [surfaces |-> {"surfA"},
     minImageCounts |-> {2, 3},
     presentModes |-> {VK_PRESENT_MODE_FIFO_KHR, VK_PRESENT_MODE_MAILBOX_KHR},
     queryValues |-> {1, 2},
     configFails |-> {},
     laterFails |-> FALSE,
     fences |-> {"none"},
     driverErrors |-> {},
     regions |-> {NoRegion},
     replaces |-> FALSE,
     queueFails |-> FALSE,
     presentIds |-> {},
     untimedIds |-> {},
     frameTimes |-> {},
     preTransforms |-> {VK_SURFACE_TRANSFORM_IDENTITY_BIT_KHR}]

\* Acquires and presents on swapchains of every size of Dequeues.
NextDequeue ==
    \/ CreateSwapchain(Dequeues)
    \/ DestroySwapchain
    \/ AcquireNextImage(Dequeues)
    \/ QueuePresent(Dequeues)

SpecDequeue == Init /\ [][NextDequeue]_vars

\* Swapchains of two to four images, for the queries that enumerate.
Enumerated ==
    [surfaces |-> {"surfA"},
     minImageCounts |-> {2, 3},
     presentModes |-> {VK_PRESENT_MODE_FIFO_KHR},
     queryValues |-> {1, 2},
     configFails |-> {},
     laterFails |-> FALSE,
     fences |-> {"none"},
     driverErrors |-> {},
     regions |-> {NoRegion},
     replaces |-> TRUE,
     queueFails |-> FALSE,
     presentIds |-> {},
     untimedIds |-> {},
     frameTimes |-> {},
     preTransforms |-> {VK_SURFACE_TRANSFORM_IDENTITY_BIT_KHR}]

\* The application asks for the surface formats, the present modes or the
\* images of a swapchain, without a buffer or with one for count entries.
GetSurfaceFormats ==
    \E count \in 0..MaxCount, hasBuffer \in BOOLEAN :
        /\ \E r \in {GetPhysicalDeviceSurfaceFormatsKHR(count, hasBuffer)} :
              Commit(World, Op("GetSurfaceFormats", VK_NULL_HANDLE, <<count, hasBuffer>>,
                               r.result, [count |-> r.count, list |-> r.formats]))
        /\ UNCHANGED retired

GetSurfacePresentModes ==
    \E count \in 0..MaxCount, hasBuffer \in BOOLEAN :
        /\ \E r \in {GetPhysicalDeviceSurfacePresentModesKHR(count, hasBuffer)} :
              Commit(World, Op("GetSurfacePresentModes", VK_NULL_HANDLE,
                               <<count, hasBuffer>>, r.result,
                               [count |-> r.count, list |-> r.modes]))
        /\ UNCHANGED retired

GetImages ==
    \E h \in Handles, count \in 0..MaxCount, hasBuffer \in BOOLEAN :
        /\ Live(World, h)
        /\ \E r \in {GetSwapchainImagesKHR(World, h, count, hasBuffer)} :
              Commit(World, Op("GetImages", h, <<count, hasBuffer>>, r.result,
                               [count |-> r.count,
                                list |-> [k \in 1..r.count |->
                                            IF hasBuffer THEN r.images[k - 1] ELSE 0]]))
        /\ UNCHANGED retired

NextEnumerate ==
    \/ CreateSwapchain(Enumerated)
    \/ GetSurfaceFormats
    \/ GetSurfacePresentModes
    \/ GetImages

SpecEnumerate == Init /\ [][NextEnumerate]_vars

\* The timestamps of a ready record and a refresh period: the time the
\* frame was shown at, the time rendering was complete, the time the
\* compositor latched the frame (none is 0 in a ready record), and rdur.
InitCalculate ==
    /\ surface = [s \in SurfaceIds |-> VK_NULL_HANDLE]
    /\ swapchain = [h \in Handles |-> NoSwapchain]
    /\ window = [s \in SurfaceIds |-> NewWindow]
    /\ open_fds = {}
    /\ fd_error = FALSE
    /\ retired = {}
    /\ enrolled = [h \in Handles |-> NoneEnrolled]
    /\ last \in {Op("timestamps", VK_NULL_HANDLE, <<actual, render, latch, rdur>>,
                     VK_SUCCESS, <<>>) :
                    actual \in 1..(TimeModulus - 1), render \in 1..(TimeModulus - 1),
                    latch \in 1..(TimeModulus - 1), rdur \in 0..(TimeModulus - 1)}

\* calculate on the record of presentID 1 with these timestamps.
CalculateRecord ==
    /\ last.op = "timestamps"
    /\ LET ti == [TimingInfo(TimeHint(1)) EXCEPT
                     !.timestamp_desired_present_time = 1,
                     !.timestamp_actual_present_time = last.arg[1],
                     !.timestamp_render_complete_time = last.arg[2],
                     !.timestamp_composition_latch_time = last.arg[3]]
       IN last' = Op("calculate", VK_NULL_HANDLE, last.arg, VK_SUCCESS,
                     Calculate(ti, last.arg[4]))
    /\ UNCHANGED <<surface, swapchain, window, open_fds, fd_error, retired, enrolled>>

NextCalculate == CalculateRecord

SpecCalculate == InitCalculate /\ [][NextCalculate]_vars

\* The native transforms: every combination of the bits FLIP_H, FLIP_V,
\* ROT_90 and INVERSE_DISPLAY.
NativeTransforms == 0..(2 * NATIVE_WINDOW_TRANSFORM_INVERSE_DISPLAY - 1)

\* A Vulkan transform and a native one to translate.
InitTransform ==
    /\ surface = [s \in SurfaceIds |-> VK_NULL_HANDLE]
    /\ swapchain = [h \in Handles |-> NoSwapchain]
    /\ window = [s \in SurfaceIds |-> NewWindow]
    /\ open_fds = {}
    /\ fd_error = FALSE
    /\ retired = {}
    /\ enrolled = [h \in Handles |-> NoneEnrolled]
    /\ last \in {Op("transforms", VK_NULL_HANDLE, <<t, n>>, VK_SUCCESS, <<>>) :
                    t \in SurfaceTransforms, n \in NativeTransforms}

\* The Vulkan transform is inverted to a native one and that one is
\* translated back; the native transform is translated.
TranslateTransforms ==
    /\ last.op = "transforms"
    /\ last' = Op("translate", VK_NULL_HANDLE, last.arg, VK_SUCCESS,
                  [native |-> InvertTransformToNative(last.arg[1]),
                   back |-> TranslateNativeToVulkanTransform(
                                InvertTransformToNative(last.arg[1])),
                   transform |-> TranslateNativeToVulkanTransform(last.arg[2])])
    /\ UNCHANGED <<surface, swapchain, window, open_fds, fd_error, retired, enrolled>>

NextTransform == TranslateTransforms

SpecTransform == InitTransform /\ [][NextTransform]_vars

\* ------------------------------------------------------- fence descriptors

\* C1: every fence fd a slot held and every release fence the driver made
\* is closed or handed over exactly once.  No fd is closed or handed over
\* while it is not open and owned (fd_error), every fd that is open is the
\* dequeue fence of exactly one slot of a live swapchain, so that no fd of
\* a destroyed swapchain and no release fence stays open.
FdsClosedOrTransferredOnce ==
    /\ ~fd_error
    /\ open_fds = ReferencedFds(World)
    /\ \A h1 \in Handles, h2 \in Handles :
         \A i1 \in Slots(World, h1), i2 \in Slots(World, h2) :
            (/\ Img(World, h1, i1).dequeue_fence # NoFence
             /\ Img(World, h1, i1).dequeue_fence = Img(World, h2, i2).dequeue_fence)
                => (h1 = h2 /\ i1 = i2)

\* A destroy that gave up the fences of its dequeued slots and left none open.
DestroyGaveUpFds ==
    /\ last.op = "DestroySwapchain"
    /\ last.fds # {}
    /\ open_fds = {}

\* C2: in every state an entry point returns in, a slot of a live swapchain
\* that holds a dequeue fence is dequeued.
FenceImpliesDequeued ==
    \A h \in Handles : Live(World, h) =>
        \A i \in Slots(World, h) :
            Img(World, h, i).dequeue_fence >= 0 => Img(World, h, i).dequeued

\* A present returned while another slot still holds its dequeue fence.
FenceHeldAfterPresent ==
    /\ last.op = "QueuePresent"
    /\ \E h \in Handles : Live(World, h) /\
         \E i \in Slots(World, h) :
            Img(World, h, i).dequeue_fence >= 0 /\ Img(World, h, i).dequeued

\* ------------------------------------------------------------ failing create

AllCreateCalls == CreateCalls(World, Sizes) \cup CreateCalls(World, Failures)

\* Every buffer the log shows dequeued is later cancelled with the fence it
\* came with.
FencesReturned(calls) ==
    \A k \in 1..Len(calls) :
        (calls[k][1] = "dequeueBuffer" /\ calls[k][3] # NoBuffer) =>
            \E j \in (k + 1)..Len(calls) :
                /\ calls[j][1] = "cancelBuffer"
                /\ calls[j][3] = calls[k][3]
                /\ calls[j][4] = calls[k][4]

NoFdLeft(w) ==
    /\ FencesReturned(w.calls)
    /\ w.open_fds = open_fds
    /\ ~w.fd_error

\* C3, as stated: whenever CreateSwapchainKHR fails, the surface's active
\* handle is what it was before the call and no fence fd obtained during
\* the call is left un-cancelled.
FailedCreateLeavesHandle ==
    \A c \in AllCreateCalls :
        LET r == CreateSwapchainKHR(World, c[1], c[2])
        IN r.result # VK_SUCCESS =>
              /\ r.w.surface = surface
              /\ NoFdLeft(r.w)

\* C3, amended: whenever CreateSwapchainKHR fails, no fence fd obtained
\* during the call is left un-cancelled; the surface's active handle is
\* what it was before the call when oldSwapchain is null or the failure is
\* native-window-in-use, and is null otherwise: the old swapchain was
\* orphaned before the step that failed.
FailedCreateRetiresOld ==
    \A c \in AllCreateCalls :
        LET ci == c[1]
            r == CreateSwapchainKHR(World, ci, c[2])
        IN r.result # VK_SUCCESS =>
              /\ r.handle = VK_NULL_HANDLE
              /\ r.w.surface =
                    IF \/ ci.oldSwapchain = VK_NULL_HANDLE
                       \/ r.result = VK_ERROR_NATIVE_WINDOW_IN_USE_KHR
                    THEN surface
                    ELSE [surface EXCEPT ![ci.surface] = VK_NULL_HANDLE]
              /\ NoFdLeft(r.w)

\* A create that was given the active swapchain failed after it had
\* dequeued a buffer with a fence: the surface has no active swapchain.
CreateFailedAfterOrphan ==
    /\ last.op = "CreateSwapchain"
    /\ last.result \notin {VK_SUCCESS, VK_ERROR_NATIVE_WINDOW_IN_USE_KHR}
    /\ last.arg.oldSwapchain # VK_NULL_HANDLE
    /\ Live(World, last.arg.oldSwapchain)
    /\ surface[last.arg.surface] = VK_NULL_HANDLE
    /\ last.fds # {}
    /\ open_fds = {}

\* ------------------------------------------------------------------ orphans

MismatchedOldChangesNothing ==
    \A c \in AllCreateCalls :
        surface[c[1].surface] # c[1].oldSwapchain =>
            LET r == CreateSwapchainKHR(World, c[1], c[2])
            IN /\ r.result = VK_ERROR_NATIVE_WINDOW_IN_USE_KHR
               /\ r.handle = VK_NULL_HANDLE
               /\ r.w.calls = <<>>
               /\ r.w.surface = surface
               /\ r.w.swapchain = swapchain
               /\ r.w = World

\* A create with a non-null oldSwapchain was refused on a surface that has
\* no active swapchain.
CreateRefusedStaleOld ==
    /\ last.op = "CreateSwapchain"
    /\ last.result = VK_ERROR_NATIVE_WINDOW_IN_USE_KHR
    /\ last.arg.oldSwapchain # VK_NULL_HANDLE
    /\ surface[last.arg.surface] = VK_NULL_HANDLE
    /\ last.fds = {}

\* ------------------------------------------------------- the number of images

\* The window's answer to MIN_UNDEQUEUED_BUFFERS that the log shows.
QueryAnswer(calls) ==
    calls[CHOOSE k \in 1..Len(calls) : calls[k][1] = "query"][4]

\* The count of the last set_buffer_count the log shows.
BufferCountSet(calls) ==
    calls[CHOOSE k \in 1..Len(calls) :
            /\ calls[k][1] = "set_buffer_count"
            /\ \A j \in (k + 1)..Len(calls) : calls[j][1] # "set_buffer_count"][3]

\* C6: after every successful create the swapchain has
\* N = (minImageCount - 1) + m images, m being the window's
\* MIN_UNDEQUEUED_BUFFERS answer, plus one for mailbox, and the window's
\* buffer count was set to N.
ImageCountIsMinPlusUndequeued ==
    \A c \in AllCreateCalls :
        LET ci == c[1]
            r == CreateSwapchainKHR(World, ci, c[2])
        IN r.result = VK_SUCCESS =>
              LET m == QueryAnswer(r.w.calls)
                       + (IF ci.presentMode = VK_PRESENT_MODE_MAILBOX_KHR THEN 1 ELSE 0)
                  N == r.w.swapchain[r.handle].num_images
              IN /\ N = (ci.minImageCount - 1) + m
                 /\ BufferCountSet(r.w.calls) = N
                 /\ r.w.window[ci.surface].buffer_count = N
                 /\ DOMAIN r.w.swapchain[r.handle].images = 0..(N - 1)

\* A mailbox swapchain with minImageCount 3 was created on a window that
\* answered 2: it has 5 images and so has the window.
MailboxCreated ==
    /\ last.op = "CreateSwapchain"
    /\ last.result = VK_SUCCESS
    /\ last.arg.presentMode = VK_PRESENT_MODE_MAILBOX_KHR
    /\ last.arg.minImageCount = 3
    /\ window[last.arg.surface].min_undequeued = 2
    /\ swapchain[last.swapchain].num_images = 5
    /\ window[last.arg.surface].buffer_count = 5

\* What GetSwapchainImagesKHR returns into a buffer of NUM_BUFFER_SLOTS
\* handles: success and exactly n handles, none of them null, no two alike.
ReturnsHandles(w, h, n) ==
    LET g == GetSwapchainImagesKHR(w, h, NUM_BUFFER_SLOTS, TRUE)
    IN /\ g.result = VK_SUCCESS
       /\ g.count = n
       /\ DOMAIN g.images = 0..(n - 1)
       /\ \A i \in DOMAIN g.images : g.images[i] # NoImage
       /\ \A i \in DOMAIN g.images, j \in DOMAIN g.images :
             g.images[i] = g.images[j] => i = j

\* C7, as stated: a FIFO swapchain created with minImageCount 2 has
\* N = 2 + the window's MIN_UNDEQUEUED_BUFFERS answer images, and
\* GetSwapchainImagesKHR with a large enough buffer returns N handles.
FifoCountIsTwoPlusAnswer ==
    \A c \in AllCreateCalls :
        LET ci == c[1]
            r == CreateSwapchainKHR(World, ci, c[2])
        IN (/\ r.result = VK_SUCCESS
            /\ ci.presentMode = VK_PRESENT_MODE_FIFO_KHR
            /\ ci.minImageCount = 2) =>
              LET N == r.w.swapchain[r.handle].num_images
              IN /\ N = 2 + QueryAnswer(r.w.calls)
                 /\ ReturnsHandles(r.w, r.handle, N)

\* C7, amended: a FIFO swapchain created with minImageCount 2 has
\* N = 1 + the window's MIN_UNDEQUEUED_BUFFERS answer images, and
\* GetSwapchainImagesKHR with a large enough buffer returns N handles.
FifoCountIsOnePlusAnswer ==
    \A c \in AllCreateCalls :
        LET ci == c[1]
            r == CreateSwapchainKHR(World, ci, c[2])
        IN (/\ r.result = VK_SUCCESS
            /\ ci.presentMode = VK_PRESENT_MODE_FIFO_KHR
            /\ ci.minImageCount = 2) =>
              LET N == r.w.swapchain[r.handle].num_images
              IN /\ N = 1 + QueryAnswer(r.w.calls)
                 /\ ReturnsHandles(r.w, r.handle, N)

\* The images of the active swapchain, which the window's state shows to
\* be made for an answer of 2 and neither for mailbox nor front-buffered,
\* were asked for with a large buffer: 3 handles came back.
FifoImagesReturned ==
    /\ last.op = "GetSwapchainImages"
    /\ last.arg = <<NUM_BUFFER_SLOTS>>
    /\ last.result = VK_SUCCESS
    /\ surface[swapchain[last.swapchain].surface] = last.swapchain
    /\ window[swapchain[last.swapchain].surface].min_undequeued = 2
    /\ window[swapchain[last.swapchain].surface].swap_interval = 1
    /\ ~window[swapchain[last.swapchain].surface].shared_buffer_mode
    /\ swapchain[last.swapchain].num_images = 3
    /\ DOMAIN last.out = 0..2

\* C8: two successful creates that differ only in the present mode,
\* mailbox and FIFO, and get the same MIN_UNDEQUEUED_BUFFERS answer: the
\* mailbox swapchain has exactly one image more.
MailboxHasOneMoreImage ==
    \A c \in AllCreateCalls :
        c[1].presentMode = VK_PRESENT_MODE_FIFO_KHR =>
            LET fifo == CreateSwapchainKHR(World, c[1], c[2])
                mailbox == CreateSwapchainKHR(
                              World,
                              [c[1] EXCEPT !.presentMode = VK_PRESENT_MODE_MAILBOX_KHR],
                              c[2])
            IN (fifo.result = VK_SUCCESS /\ mailbox.result = VK_SUCCESS) =>
                  /\ QueryAnswer(mailbox.w.calls) = QueryAnswer(fifo.w.calls)
                  /\ mailbox.w.swapchain[mailbox.handle].num_images =
                        fifo.w.swapchain[fifo.handle].num_images + 1

\* A mailbox swapchain replaced a swapchain of the same minImageCount and
\* has one image more than it.
MailboxReplacedSmaller ==
    /\ last.op = "CreateSwapchain"
    /\ last.result = VK_SUCCESS
    /\ last.arg.presentMode = VK_PRESENT_MODE_MAILBOX_KHR
    /\ last.arg.oldSwapchain # VK_NULL_HANDLE
    /\ Live(World, last.arg.oldSwapchain)
    /\ swapchain[last.swapchain].num_images =
          swapchain[last.arg.oldSwapchain].num_images + 1

\* ------------------------------------------------------------------ acquire

\* C9: a successful acquire on an active swapchain returns an index i in
\* [0, N) whose slot holds the buffer the window just dequeued; on return
\* slot i is dequeued and its dequeue fence is the fence the window
\* returned; its image and buffer, and every other slot, are as before.
AcquireMarksDequeuedSlot ==
    \A h \in Handles : Live(World, h) =>
        \A env \in AcquireEnvs(World, h, Lifecycle) :
            LET r == AcquireNextImageKHR(World, h, env)
            IN r.result = VK_SUCCESS =>
                  LET got == r.w.calls[1]
                      i == r.index
                  IN /\ surface[swapchain[h].surface] = h
                     /\ got[1] = "dequeueBuffer"
                     /\ i \in Slots(World, h)
                     /\ Img(r.w, h, i).buffer = got[3]
                     /\ Img(r.w, h, i).dequeued
                     /\ Img(r.w, h, i).dequeue_fence = got[4]
                     /\ Img(r.w, h, i).image = Img(World, h, i).image
                     /\ Img(r.w, h, i).buffer = Img(World, h, i).buffer
                     /\ \A j \in Slots(World, h) \ {i} :
                           Img(r.w, h, j) = Img(World, h, j)
                     /\ \A g \in Handles \ {h} : r.w.swapchain[g] = swapchain[g]

\* An acquire returned the second slot, with the fence of its buffer.
AcquiredSecondSlotWithFence ==
    /\ last.op = "AcquireNextImage"
    /\ last.result = VK_SUCCESS
    /\ last.out = 1
    /\ Img(World, last.swapchain, 1).dequeued
    /\ Img(World, last.swapchain, 1).dequeue_fence =
          DequeueFence(Img(World, last.swapchain, 1).buffer)
    /\ ~Img(World, last.swapchain, 0).dequeued

DriverEntryPoints ==
    {"AcquireImageANDROID", "QueueSignalReleaseImageANDROID", "CreateImage",
     "DestroyImage", "GetSwapchainGrallocUsage2ANDROID"}

\* C10: an acquire that dequeues a buffer no slot of the swapchain holds
\* cancels that buffer with the fence it came with, answers out-of-date,
\* calls no driver entry point and leaves every slot as it was.
UnknownBufferIsCancelled ==
    \A h \in Handles : Live(World, h) =>
        \A env \in AcquireEnvs(World, h, Lifecycle) :
            (/\ surface[swapchain[h].surface] = h
             /\ env.dequeue = "ok"
             /\ \A i \in Slots(World, h) : Img(World, h, i).buffer # env.buffer) =>
                LET r == AcquireNextImageKHR(World, h, env)
                    s == swapchain[h].surface
                    fence == IF env.fence THEN DequeueFence(env.buffer) ELSE NoFence
                IN /\ r.result = VK_ERROR_OUT_OF_DATE_KHR
                   /\ r.w.calls = << <<"dequeueBuffer", s, env.buffer, fence>>,
                                     <<"cancelBuffer", s, env.buffer, fence>> >>
                   /\ \A k \in 1..Len(r.w.calls) : r.w.calls[k][1] \notin DriverEntryPoints
                   /\ r.w.swapchain = swapchain
                   /\ r.w.open_fds = open_fds
                   /\ ~r.w.fd_error

\* An acquire on the active swapchain answered out-of-date and gave a
\* fence back: the window had handed out a buffer of another set.
UnknownBufferGivenBack ==
    /\ last.op = "AcquireNextImage"
    /\ last.result = VK_ERROR_OUT_OF_DATE_KHR
    /\ surface[swapchain[last.swapchain].surface] = last.swapchain
    /\ last.fds = {DequeueFence(ForeignBuffer)}
    /\ open_fds = ReferencedFds(World)

\* ------------------------------------------------- acquire, driver failure

\* C11: when AcquireImageANDROID fails in an acquire, the buffer is
\* cancelled with the fence the window handed out (not its duplicate), the
\* slot ends not dequeued with dequeue_fence = -1, the driver's error is
\* returned, and this layer closes neither the duplicate nor any other fd.
DriverFailureCancelsBuffer ==
    \A h \in Handles : Live(World, h) =>
        \A env \in AcquireEnvs(World, h, Lifecycle) :
            (env.dequeue = "ok" /\ env.driver # VK_SUCCESS) =>
                LET r == AcquireNextImageKHR(World, h, env)
                    s == swapchain[h].surface
                    idx == FindBuffer(World, h, 0, env.buffer)
                    fence == IF env.fence THEN DequeueFence(env.buffer) ELSE NoFence
                    clone == IF env.fence /\ env.dup THEN DupFence(fence) ELSE NoFence
                    calls == r.w.calls
                IN /\ r.result = env.driver
                   /\ calls[Len(calls)] = <<"cancelBuffer", s, env.buffer, fence>>
                   /\ calls[Len(calls) - 1] =
                         <<"AcquireImageANDROID", Img(World, h, idx).image, clone>>
                   /\ \A k \in 1..Len(calls) : calls[k][1] # "close"
                   /\ Cardinality({k \in 1..Len(calls) : calls[k][1] = "cancelBuffer"}) = 1
                   /\ ~Img(r.w, h, idx).dequeued
                   /\ Img(r.w, h, idx).dequeue_fence = NoFence
                   /\ r.w.open_fds = open_fds
                   /\ ~r.w.fd_error

\* An acquire returned the driver's error after the window had handed out
\* a buffer with a fence: the fence went back with the buffer and no slot
\* of the swapchain is left dequeued.
AcquireFailedInDriver ==
    /\ last.op = "AcquireNextImage"
    /\ last.result = VK_ERROR_DEVICE_LOST
    /\ last.fds # {}
    /\ \A f \in last.fds : f < FdBase(1)
    /\ \A i \in Slots(World, last.swapchain) : ~Img(World, last.swapchain, i).dequeued

\* ------------------------------------------------------ present, one entry

Active(w, h) == w.surface[w.swapchain[h].surface] = h

QueueBufferCalls(calls) == {k \in 1..Len(calls) : calls[k][1] = "queueBuffer"}

\* C12 as stated: for every entry of a present for which
\* QueueSignalReleaseImageANDROID fails, the entry's result is the driver's
\* error code and queueBuffer is not called.
DriverErrorIsEntryResult ==
    \A e \in PresentEntries(World, Lifecycle) :
        e.driver # VK_SUCCESS =>
            LET r == QueuePresentKHR(World, <<e>>)
            IN /\ r.pResults = <<e.driver>>
               /\ QueueBufferCalls(r.w.calls) = {}

\* C12, amended: for every entry for which QueueSignalReleaseImageANDROID
\* fails, queueBuffer is not called, and the entry's result is the driver's
\* error code when its swapchain is the surface's active one and
\* out-of-date when it is not.
DriverErrorOnActiveIsEntryResult ==
    \A e \in PresentEntries(World, Lifecycle) :
        e.driver # VK_SUCCESS =>
            LET r == QueuePresentKHR(World, <<e>>)
            IN /\ r.pResults = <<IF Active(World, e.swapchain) THEN e.driver
                                 ELSE VK_ERROR_OUT_OF_DATE_KHR>>
               /\ QueueBufferCalls(r.w.calls) = {}

\* A present returned the driver's error for an image of the swapchain
\* that was the active one, which it stopped being; another swapchain,
\* retired before, still has an image the application holds, whose present
\* the driver can refuse as well.
PresentFailedInDriver ==
    /\ last.op = "QueuePresent"
    /\ last.out = <<VK_ERROR_DEVICE_LOST>>
    /\ ~Active(World, last.swapchain)
    /\ \E e \in PresentEntries(World, Lifecycle) :
          e.driver # VK_SUCCESS /\ e.swapchain # last.swapchain

\* C13: for an entry whose swapchain is active and whose release fence
\* call succeeded, queueBuffer is called exactly once, with the slot's
\* buffer and the release fence; afterwards, whether it succeeded or not,
\* the slot is not dequeued and holds no dequeue fence.
ActivePresentQueuesOnce ==
    \A e \in PresentEntries(World, Lifecycle) :
        (Active(World, e.swapchain) /\ e.driver = VK_SUCCESS) =>
            LET r == QueuePresentKHR(World, <<e>>)
                h == e.swapchain
                img == Img(World, h, e.imageIndex)
                fence == IF e.fence THEN ReleaseFence(img.image) ELSE NoFence
                queued == QueueBufferCalls(r.w.calls)
            IN /\ Cardinality(queued) = 1
               /\ \A k \in queued :
                     r.w.calls[k] = <<"queueBuffer", swapchain[h].surface, img.buffer, fence>>
               /\ Img(r.w, h, e.imageIndex).dequeue_fence = NoFence
               /\ ~Img(r.w, h, e.imageIndex).dequeued

\* A present succeeded and handed both the release fence and the fence
\* the buffer was dequeued with out of this layer.
PresentQueuedWithReleaseFence ==
    /\ last.op = "QueuePresent"
    /\ last.result = VK_SUCCESS
    /\ \E f \in last.fds : f >= FdBase(1)
    /\ \E f \in last.fds : f < FdBase(1)
    /\ Img(World, last.swapchain, last.arg[1]).dequeue_fence = NoFence
    /\ ~Img(World, last.swapchain, last.arg[1]).dequeued

\* ---------------------------------------------------- present, two entries

\* C14: in one present of images of two active swapchains whose release
\* fences the driver made, when queueBuffer fails for exactly one, the
\* results are out-of-date for that one and success for the other, the
\* call returns out-of-date, the failing swapchain is no longer its
\* surface's active one, and the other still is.
OneFailedQueueBufferOrphansOne ==
    \A entries \in PresentInfos(World, Presents) :
        (/\ Len(entries) = 2
         /\ \A k \in 1..2 : Active(World, entries[k].swapchain)
                            /\ entries[k].driver = VK_SUCCESS
         /\ entries[1].queueOk # entries[2].queueOk) =>
            LET r == QueuePresentKHR(World, entries)
            IN /\ \A k \in 1..2 :
                    /\ r.pResults[k] = IF entries[k].queueOk THEN VK_SUCCESS
                                       ELSE VK_ERROR_OUT_OF_DATE_KHR
                    /\ Active(r.w, entries[k].swapchain) = entries[k].queueOk
               /\ r.result = VK_ERROR_OUT_OF_DATE_KHR

\* A present handed the buffers of two swapchains to their windows; the
\* second was refused, and that swapchain is orphaned while the first is
\* still active.
SecondOfTwoPresentsFailed ==
    /\ last.op = "QueuePresent"
    /\ last.out = <<VK_SUCCESS, VK_ERROR_OUT_OF_DATE_KHR>>
    /\ last.result = VK_ERROR_OUT_OF_DATE_KHR
    /\ Cardinality(last.queued) = 2
    /\ Active(World, last.arg[1])
    /\ ~Active(World, last.arg[2])
    /\ surface[swapchain[last.arg[2]].surface] = VK_NULL_HANDLE

\* -------------------------------------------------------- aggregate result

\* The ranking of present results, worst first.
Ranking == kWorstToBest \o <<VK_SUCCESS>>

InRanking(a) == \E k \in 1..Len(Ranking) : Ranking[k] = a

\* a ranks at least as high as b.  A code the ranking does not list is put
\* where it does least harm to the claim: below every listed error, above
\* VK_SUCCESS, and level only with itself.
RanksAtLeast(a, b) ==
    \/ a = b
    \/ b = VK_SUCCESS
    \/ InRanking(a) /\ ~InRanking(b)
    \/ \E i \in 1..Len(Ranking), j \in 1..Len(Ranking) :
          Ranking[i] = a /\ Ranking[j] = b /\ i <= j

\* C15: the value a present returns is the highest-ranked of its entries'
\* results, for every result an entry can have, the driver's error codes
\* included; it is VK_SUCCESS exactly when every entry's result is.
PresentReturnsHighestRanked ==
    \A entries \in PresentInfos(World, Presents) :
        LET r == QueuePresentKHR(World, entries)
            n == Len(entries)
        IN /\ \E k \in 1..n : r.result = r.pResults[k]
           /\ \A k \in 1..n : RanksAtLeast(r.result, r.pResults[k])
           /\ (r.result = VK_SUCCESS) <=> (\A k \in 1..n : r.pResults[k] = VK_SUCCESS)

\* C16: on the results of the ranking, WorstPresentResult is commutative
\* and associative.
WorstIsCommutativeAndAssociative ==
    last.op = "WorstPresentResult" =>
        /\ last.out[1] = last.out[2]
        /\ last.out[3] = last.out[4]

\* Three different results were merged, the worst of them given last, and
\* both groupings gave that one.
WorstOfThreeMerged ==
    /\ last.op = "WorstPresentResult"
    /\ last.arg = <<VK_SUBOPTIMAL_KHR, VK_ERROR_OUT_OF_DATE_KHR, VK_ERROR_DEVICE_LOST>>
    /\ last.out = <<VK_ERROR_OUT_OF_DATE_KHR, VK_ERROR_OUT_OF_DATE_KHR,
                    VK_ERROR_DEVICE_LOST, VK_ERROR_DEVICE_LOST>>

\* ------------------------------------------------------------- timing store

StoreIds(timing) == {timing[k].presentID : k \in 1..Len(timing)}

\* C17: in every state an entry point returns in, the timing store of
\* every swapchain holds at most MAX_TIMING_INFOS records, in strictly
\* increasing order of presentID, whatever presentIDs the application gave.
TimingStoreBoundedAndIncreasing ==
    \A h \in Handles :
        LET timing == swapchain[h].timing
        IN /\ Len(timing) <= MAX_TIMING_INFOS
           /\ \A i \in 1..Len(timing), j \in 1..Len(timing) :
                 i < j => timing[i].presentID < timing[j].presentID

\* A present left a full store whose presentIDs had not all come in
\* increasing order.
FullStoreAfterUnorderedIds ==
    /\ last.op = "QueuePresent"
    /\ Len(swapchain[last.swapchain].timing) = MAX_TIMING_INFOS
    /\ ~enrolled[last.swapchain].tracked
    /\ Active(World, last.swapchain)

\* C18: while the presentIDs of a swapchain's timed presents have come in
\* strictly increasing order and no record was copied out (nor the store
\* cleared with the swapchain's orphaning), the store holds exactly the
\* records of the MAX_TIMING_INFOS largest presentIDs, or of all if they
\* are fewer.
StoreHoldsLargestIds ==
    \A h \in Handles :
        (Live(World, h) /\ enrolled[h].tracked) =>
            LET ids == enrolled[h].ids
            IN StoreIds(swapchain[h].timing) =
                  {x \in ids : Cardinality({y \in ids : y > x}) < MAX_TIMING_INFOS}

\* Presents with the presentIDs 1 to 12 in turn left the records of 3 to
\* 12 in the store.
TwelveEnrolledTenKept ==
    /\ last.op = "QueuePresent"
    /\ enrolled[last.swapchain].tracked
    /\ enrolled[last.swapchain].ids = 1..12
    /\ StoreIds(swapchain[last.swapchain].timing) = 3..12

\* ---------------------------------------------------------- copying out

NotReady(ti) == ~Ready(ti)

ValuesOf(records) == [k \in 1..Len(records) |-> Values(records[k])]

\* C19: a call with a buffer for at least as many records as the store
\* holds copies every ready record, in the store's order of increasing
\* presentID, sets *count to their number, and leaves in the store exactly
\* the records that were not ready, unchanged.
LargeBufferTakesAllReady ==
    \A h \in Handles : Live(World, h) =>
        \A count \in Len(swapchain[h].timing)..(MaxStoredId + 1) :
            LET timing == swapchain[h].timing
                r == GetPastPresentationTimingGOOGLE(World, h, count, TRUE,
                                                     [frames |-> <<>>])
            IN /\ r.result = VK_SUCCESS
               /\ r.timings = ValuesOf(SelectSeq(timing, Ready))
               /\ r.count = Len(SelectSeq(timing, Ready))
               /\ r.w.swapchain[h].timing = SelectSeq(timing, NotReady)

\* A call with room for the whole store copied two records of increasing
\* presentID and left one that was not ready.
TwoCopiedOneLeft ==
    /\ last.op = "CopyTimings"
    /\ last.arg[1] >= last.arg[2]
    /\ last.out.count = 2
    /\ last.out.timings[1].presentID < last.out.timings[2].presentID
    /\ Len(swapchain[last.swapchain].timing) = 1
    /\ NotReady(swapchain[last.swapchain].timing[1])

\* The store without the first n of its ready records.
RECURSIVE WithoutFirstReady(_, _)
WithoutFirstReady(timing, n) ==
    IF timing = <<>> \/ n = 0 THEN timing
    ELSE IF Ready(Head(timing)) THEN WithoutFirstReady(Tail(timing), n - 1)
    ELSE <<Head(timing)>> \o WithoutFirstReady(Tail(timing), n)

\* C20: for every store and every limit L, a call with a buffer and
\* *count = L copies the first min(L, r) ready records in the store's
\* order, r being the number of ready records, deletes each of them from
\* the store and returns min(L, r) in *count.
CopiesFirstReadyUpToLimit ==
    \A h \in Handles : Live(World, h) =>
        \A L \in 0..(MaxStoredId + 1) :
            LET timing == swapchain[h].timing
                ready == SelectSeq(timing, Ready)
                n == IF L < Len(ready) THEN L ELSE Len(ready)
                r == GetPastPresentationTimingGOOGLE(World, h, L, TRUE,
                                                     [frames |-> <<>>])
            IN /\ r.timings = ValuesOf(SubSeq(ready, 1, n))
               /\ r.count = n
               /\ r.w.swapchain[h].timing = WithoutFirstReady(timing, n)

\* ------------------------------------------------------- counting only

\* The number of ready records of a store.
NumReady(timing) == Cardinality({k \in 1..Len(timing) : Ready(timing[k])})

\* C21: a call without a buffer that returns sets *count to the number of
\* records that are ready after the refresh of the store, and the store
\* holds the records of the same presentIDs as before, the ready ones
\* unchanged.
CountOnlyCountsReadyKeepsAll ==
    \A h \in Handles : Live(World, h) =>
        \A env \in [frames : FrameHistories(Timed)] :
            LET r == GetPastPresentationTimingGOOGLE(World, h, 0, FALSE, env)
                before == swapchain[h].timing
                after == r.w.swapchain[h].timing
            IN r.returns =>
                 /\ r.result = VK_SUCCESS
                 /\ r.count = NumReady(after)
                 /\ Len(after) = Len(before)
                 /\ \A k \in 1..Len(before) :
                       /\ after[k].presentID = before[k].presentID
                       /\ Ready(before[k]) => after[k] = before[k]

\* A call without a buffer counted a record, and the store still holds it
\* and records that are not ready.
CountedOneOfMany ==
    /\ last.op = "GetPastPresentationTiming"
    /\ last.arg = <<0, FALSE>>
    /\ last.out = 1
    /\ NumReady(swapchain[last.swapchain].timing) = 1
    /\ Len(swapchain[last.swapchain].timing) > MIN_NUM_FRAMES_AGO

\* ------------------------------------------------------------ calculate

\* C22: after calculate, a ready record has earliestPresentTime <=
\* actualPresentTime, and its presentMargin is the time between
\* render-complete and composition latch less a whole number of refresh
\* periods (as an unsigned number it is >= 0).
CalculateIsMonotone ==
    (last.op = "calculate" /\ last.out.returns) =>
        /\ last.out.ti.earliestPresentTime <= last.out.ti.actualPresentTime
        /\ last.out.ti.presentMargin >= 0
        /\ \E n \in 0..TimeModulus :
              last.out.ti.presentMargin =
                  (last.arg[3] - last.arg[2] - n * last.arg[4]) % TimeModulus

\* ------------------------------------------------------- transform codec

\* The clockwise angle of a Vulkan rotation and of a native one.
Rotations ==
    {VK_SURFACE_TRANSFORM_IDENTITY_BIT_KHR, VK_SURFACE_TRANSFORM_ROTATE_90_BIT_KHR,
     VK_SURFACE_TRANSFORM_ROTATE_180_BIT_KHR, VK_SURFACE_TRANSFORM_ROTATE_270_BIT_KHR}

Angle(t) ==
    CASE t = VK_SURFACE_TRANSFORM_IDENTITY_BIT_KHR -> 0
      [] t = VK_SURFACE_TRANSFORM_ROTATE_90_BIT_KHR -> 90
      [] t = VK_SURFACE_TRANSFORM_ROTATE_180_BIT_KHR -> 180
      [] t = VK_SURFACE_TRANSFORM_ROTATE_270_BIT_KHR -> 270

NativeAngle(n) ==
    CASE n = 0 -> 0
      [] n = NATIVE_WINDOW_TRANSFORM_ROT_90 -> 90
      [] n = NATIVE_WINDOW_TRANSFORM_ROT_180 -> 180
      [] n = NATIVE_WINDOW_TRANSFORM_ROT_270 -> 270

\* C23: for each of the four rotations t, the angles of t and of the
\* native transform InvertTransformToNative(t) add up to 0 modulo 360, and
\* translating that native transform back gives the inverse rotation of t.
InverseNativeCancelsRotation ==
    (last.op = "translate" /\ last.arg[1] \in Rotations) =>
        /\ (Angle(last.arg[1]) + NativeAngle(last.out.native)) % 360 = 0
        /\ last.out.back \in Rotations
        /\ (Angle(last.arg[1]) + Angle(last.out.back)) % 360 = 0

\* The rotation by 90 degrees was inverted to the native rotation by 270.
Rotate90Inverted ==
    /\ last.op = "translate"
    /\ last.arg[1] = VK_SURFACE_TRANSFORM_ROTATE_90_BIT_KHR
    /\ last.out.native = NATIVE_WINDOW_TRANSFORM_ROT_270
    /\ last.out.back = VK_SURFACE_TRANSFORM_ROTATE_270_BIT_KHR

\* C24: TranslateNativeToVulkanTransform answers for every native value:
\* the rotation of the same name for 0, ROT_90, ROT_180 and ROT_270, four
\* different flags, and identity for every other value.
NativeRotationsTranslateByName ==
    last.op = "translate" =>
        LET n == last.arg[2]
            t == last.out.transform
        IN /\ t \in SurfaceTransforms
           /\ n \in {0, NATIVE_WINDOW_TRANSFORM_ROT_90, NATIVE_WINDOW_TRANSFORM_ROT_180,
                     NATIVE_WINDOW_TRANSFORM_ROT_270} =>
                 t \in Rotations /\ Angle(t) = NativeAngle(n)
           /\ n \notin {0, NATIVE_WINDOW_TRANSFORM_ROT_90, NATIVE_WINDOW_TRANSFORM_ROT_180,
                        NATIVE_WINDOW_TRANSFORM_ROT_270} =>
                 t = VK_SURFACE_TRANSFORM_IDENTITY_BIT_KHR

\* A native rotation by 90 degrees with the INVERSE_DISPLAY bit was
\* translated to identity.
InverseDisplayRotationTranslated ==
    /\ last.op = "translate"
    /\ last.arg[2] = NATIVE_WINDOW_TRANSFORM_INVERSE_DISPLAY + NATIVE_WINDOW_TRANSFORM_ROT_90
    /\ last.out.transform = VK_SURFACE_TRANSFORM_IDENTITY_BIT_KHR

\* --------------------------------------------------- buffers transform

\* The native transform that undoes a preTransform.
InverseNative(t) ==
    CASE t = VK_SURFACE_TRANSFORM_ROTATE_90_BIT_KHR -> NATIVE_WINDOW_TRANSFORM_ROT_270
      [] t = VK_SURFACE_TRANSFORM_ROTATE_180_BIT_KHR -> NATIVE_WINDOW_TRANSFORM_ROT_180
      [] t = VK_SURFACE_TRANSFORM_ROTATE_270_BIT_KHR -> NATIVE_WINDOW_TRANSFORM_ROT_90
      [] t \in {VK_SURFACE_TRANSFORM_IDENTITY_BIT_KHR,
                VK_SURFACE_TRANSFORM_INHERIT_BIT_KHR} -> 0
      [] OTHER -> -1

\* The arguments of the set_buffers_transform calls of a log, in order.
TransformCalls(calls) ==
    LET at == SelectSeq([k \in 1..Len(calls) |-> k],
                        LAMBDA k : calls[k][1] = "set_buffers_transform")
    IN [j \in 1..Len(at) |-> calls[at[j]][3]]

\* The place of a call in the sequence of configuration calls.
ConfigCallAt(ci, q, name) ==
    CHOOSE k \in 1..Len(ConfigCalls(ci, q)) : ConfigCalls(ci, q)[k][1] = name

SupportedTransforms ==
    Rotations \cup {VK_SURFACE_TRANSFORM_INHERIT_BIT_KHR}

\* C25 as stated: a CreateSwapchain call that gets to the configuration of
\* the window (the oldSwapchain check passes and the window is reset)
\* calls native_window_set_buffers_transform exactly once, with the native
\* inverse of the preTransform.
ConfiguringSetsTransformOnce ==
    \A c \in CreateCalls(World, Transforms) :
        LET ci == c[1]
            env == c[2]
            r == CreateSwapchainKHR(World, ci, env)
        IN (/\ ci.preTransform \in SupportedTransforms
            /\ ~OldSwapchainMismatch(World, ci)
            /\ ~(env.fail[1] = "config" /\ env.fail[2] <= FirstFallibleCall)) =>
               TransformCalls(r.w.calls) = <<InverseNative(ci.preTransform)>>

\* C25: a CreateSwapchain call in which no window call before
\* native_window_set_buffers_transform fails makes that call exactly once,
\* with the native inverse of the preTransform; a call that fails before
\* does not make it.
TransformSetOnceWhenReached ==
    \A c \in CreateCalls(World, Transforms) :
        LET ci == c[1]
            env == c[2]
            r == CreateSwapchainKHR(World, ci, env)
            at == ConfigCallAt(ci, env.query_value, "set_buffers_transform")
        IN ci.preTransform \in SupportedTransforms =>
             TransformCalls(r.w.calls) =
                IF \/ OldSwapchainMismatch(World, ci)
                   \/ env.fail[1] = "config" /\ env.fail[2] < at
                THEN <<>> ELSE <<InverseNative(ci.preTransform)>>

\* A swapchain was created with a preTransform of 90 degrees.
CreatedWithRotate90 ==
    /\ last.op = "CreateSwapchain"
    /\ last.result = VK_SUCCESS
    /\ last.arg.preTransform = VK_SURFACE_TRANSFORM_ROTATE_90_BIT_KHR
    /\ surface[last.arg.surface] = last.swapchain

\* What an enumerating query answers for a list full, a *count of count on
\* entry and a buffer or none: result, *count on return n and the entries
\* written list.
Enumerates(result, n, list, full, count, hasBuffer) ==
    /\ ~hasBuffer => result = VK_SUCCESS /\ n = Len(full)
    /\ hasBuffer /\ count < Len(full) =>
          result = VK_INCOMPLETE /\ n = count /\ list = SubSeq(full, 1, count)
    /\ hasBuffer /\ count >= Len(full) =>
          result = VK_SUCCESS /\ n = Len(full) /\ list = full

\* The images of swapchain h in order.
ImagesOf(h) == [k \in 1..World.swapchain[h].num_images |-> Img(World, h, k - 1).image]

\* C26: the formats query (3 entries), the present modes query (4 entries)
\* and the images query (N entries) answer every *count the same way: without
\* a buffer *count becomes the full length and the result is success; with a
\* buffer smaller than the list the first *count entries are copied, *count
\* stays and the result is incomplete; with a buffer of at least the full
\* length all entries are copied, *count becomes the full length and the
\* result is success.
EnumeratorsFollowCountProtocol ==
    \A count \in 0..MaxCount, hasBuffer \in BOOLEAN :
        /\ Len(kFormats) = 3
        /\ Len(kModes) = 4
        /\ \E r \in {GetPhysicalDeviceSurfaceFormatsKHR(count, hasBuffer)} :
              Enumerates(r.result, r.count, r.formats, kFormats, count, hasBuffer)
        /\ \E r \in {GetPhysicalDeviceSurfacePresentModesKHR(count, hasBuffer)} :
              Enumerates(r.result, r.count, r.modes, kModes, count, hasBuffer)
        /\ \A h \in Handles :
              Live(World, h) =>
                \E r \in {GetSwapchainImagesKHR(World, h, count, hasBuffer)} :
                    Enumerates(r.result, r.count,
                               [k \in 1..(IF hasBuffer THEN r.count ELSE 0) |-> r.images[k - 1]],
                               ImagesOf(h), count, hasBuffer)

\* Two of the three images of a swapchain were copied into a buffer of two.
TwoOfThreeImagesCopied ==
    /\ last.op = "GetImages"
    /\ last.arg = <<2, TRUE>>
    /\ World.swapchain[last.swapchain].num_images = 3
    /\ last.result = VK_INCOMPLETE
    /\ last.out.count = 2
    /\ last.out.list = SubSeq(ImagesOf(last.swapchain), 1, 2)

\* The slots of swapchain h that the application holds.
DequeuedSlots(h) == {i \in Slots(World, h) : Img(World, h, i).dequeued}

\* N - min_undequeued of the active swapchain h: the window still has the
\* MIN_UNDEQUEUED_BUFFERS answer and the swap interval of h's creation.
DequeueLimit(h) ==
    swapchain[h].num_images - MinUndequeued(window[swapchain[h].surface])

WindowReturns(calls, buffer) ==
    {k \in 1..Len(calls) :
        calls[k][1] \in {"queueBuffer", "cancelBuffer"} /\ calls[k][3] = buffer}

\* Whether call c is followed by call d in a log.
Follows(calls, c, d) ==
    \E j, k \in 1..Len(calls) : j < k /\ calls[j] = c /\ calls[k] = d

\* C28: a present of an image of a swapchain that is no longer its
\* surface's active one hands the image's buffer to the window neither with
\* queueBuffer nor with cancelBuffer; the release fence, if the driver made
\* one, is waited on and closed, the slot's dequeue fence, if it has one, is
\* closed, the image is destroyed, the slot ends not dequeued with fence -1,
\* the entry's result is out-of-date, and the entries after it are
\* processed.
InactivePresentReleasesSlot ==
    \A entries \in PresentInfos(World, Replaced) :
        \A k \in 1..Len(entries) :
            ~Active(World, entries[k].swapchain) =>
                \E r \in {QueuePresentKHR(World, entries)}, e \in {entries[k]} :
                  \E img \in {Img(World, e.swapchain, e.imageIndex)} :
                    \E fence \in {IF e.driver = VK_SUCCESS /\ e.fence
                                   THEN ReleaseFence(img.image) ELSE NoFence} :
                        /\ WindowReturns(r.w.calls, img.buffer) = {}
                        /\ fence # NoFence =>
                              /\ Follows(r.w.calls, <<"sync_wait", fence>>, <<"close", fence>>)
                              /\ fence \notin r.w.open_fds
                        /\ img.dequeue_fence # NoFence =>
                              /\ \E j \in 1..Len(r.w.calls) :
                                    r.w.calls[j] = <<"close", img.dequeue_fence>>
                              /\ img.dequeue_fence \notin r.w.open_fds
                        /\ \E j \in 1..Len(r.w.calls) :
                              r.w.calls[j] = <<"DestroyImage", img.image>>
                        /\ Img(r.w, e.swapchain, e.imageIndex) = NewImage
                        /\ ~r.w.fd_error
                        /\ r.pResults[k] = VK_ERROR_OUT_OF_DATE_KHR
                        /\ Len(r.pResults) = Len(entries)
                        /\ \A n \in (k + 1)..Len(entries) :
                              \E j \in 1..Len(r.w.calls) :
                                 /\ r.w.calls[j][1] = "QueueSignalReleaseImageANDROID"
                                 /\ r.w.calls[j][2] =
                                       Img(World, entries[n].swapchain,
                                           entries[n].imageIndex).image

\* One call presented an image of a replaced swapchain, whose release
\* fence and dequeue fence were closed, and then queued an image of the
\* active one.
PresentedReplacedThenActive ==
    /\ last.op = "QueuePresent"
    /\ last.out = <<VK_ERROR_OUT_OF_DATE_KHR, VK_SUCCESS>>
    /\ ~Active(World, last.arg[1])
    /\ Active(World, last.arg[2])
    /\ Cardinality(last.queued) = 1
    /\ Cardinality(last.fds) >= 3

\* The slots of swapchain h that OrphanSwapchain releases, and those of
\* them that have a VkImage.
IdleSlots(h) == {i \in Slots(World, h) : ~Img(World, h, i).dequeued}
IdleImages(h) == {Img(World, h, i).image : i \in IdleSlots(h)} \ {NoImage}

\* C29: OrphanSwapchain on the surface's active swapchain sets the
\* surface's handle to none, destroys the image and drops the buffer of
\* every slot that is not dequeued without a window call, empties the
\* timing store and leaves the dequeued slots and everything else as they
\* were; on a swapchain that is not the active one it changes nothing.
OrphanReleasesIdleSlotsOnly ==
    \A h \in Handles :
        Live(World, h) =>
            \E r \in {OrphanSwapchain(World, h)} :
                IF Active(World, h)
                THEN /\ r.surface = [surface EXCEPT ![swapchain[h].surface] = VK_NULL_HANDLE]
                     /\ r.swapchain =
                           [swapchain EXCEPT
                              ![h].timing = <<>>,
                              ![h].images =
                                 [i \in Slots(World, h) |->
                                    IF i \in IdleSlots(h)
                                    THEN [@[i] EXCEPT !.image = NoImage, !.buffer = NoBuffer]
                                    ELSE @[i]]]
                     /\ {r.calls[k] : k \in 1..Len(r.calls)}
                           = {<<"DestroyImage", image>> : image \in IdleImages(h)}
                     /\ Len(r.calls) = Cardinality(IdleImages(h))
                     /\ r.window = window
                     /\ r.open_fds = open_fds
                     /\ r.fd_error = fd_error
                ELSE r = World

\* A swapchain was replaced while the application held one of its images:
\* that slot is as it was, the other is released and the store is empty.
ReplacedWithHeldImage ==
    /\ last.op = "CreateSwapchain"
    /\ last.result = VK_SUCCESS
    /\ last.arg.oldSwapchain # VK_NULL_HANDLE
    /\ \E h \in {last.arg.oldSwapchain} :
          /\ ~Active(World, h)
          /\ surface[swapchain[h].surface] = last.swapchain
          /\ swapchain[h].timing = <<>>
          /\ \E i, j \in Slots(World, h) :
                /\ Img(World, h, i).dequeued
                /\ Img(World, h, i).image # NoImage
                /\ Img(World, h, i).dequeue_fence # NoFence
                /\ Img(World, h, j) = NewImage

\* The calls of a log that switch the frame timestamps of a window off.
DisableTimestampCalls(calls) ==
    {k \in 1..Len(calls) :
        calls[k][1] = "enable_frame_timestamps" /\ calls[k][3] = FALSE}

\* C30: DestroySwapchain switches the frame timestamps off only on the
\* window of a swapchain that is its surface's active one and has them
\* enabled; for a swapchain that is not active it makes no window call with
\* a null window.
DestroyDisablesTimestampsOnLiveWindow ==
    \A h \in Handles :
        Live(World, h) =>
            \E r \in {DestroySwapchainKHR(World, h)} :
                /\ \A k \in DisableTimestampCalls(r.calls) :
                      /\ Active(World, h)
                      /\ swapchain[h].frame_timestamps_enabled
                      /\ r.calls[k][2] = swapchain[h].surface
                /\ \A k \in 1..Len(r.calls) :
                      r.calls[k][1] \in {"enable_frame_timestamps", "cancelBuffer"} =>
                          r.calls[k][2] # NoWindow

\* What DestroySwapchainKHR(h) has to have done in the world r it leaves:
\* every dequeued slot's buffer cancelled with its dequeue fence on the
\* window of an active swapchain, or its fence waited on and closed for one
\* that is not active; every image destroyed; the object freed; the
\* surface's handle none if it was h and unchanged otherwise.
DestroyReleased(h, r) ==
    /\ \A i \in Slots(World, h) :
          \E img \in {Img(World, h, i)} :
             /\ img.dequeued /\ Active(World, h) =>
                   \E k \in 1..Len(r.calls) :
                      r.calls[k] = <<"cancelBuffer", swapchain[h].surface, img.buffer,
                                     img.dequeue_fence>>
             /\ img.dequeued /\ ~Active(World, h) =>
                   /\ WindowReturns(r.calls, img.buffer) = {}
                   /\ img.dequeue_fence # NoFence =>
                         Follows(r.calls, <<"sync_wait", img.dequeue_fence>>,
                                 <<"close", img.dequeue_fence>>)
             /\ img.dequeue_fence \notin r.open_fds
             /\ img.image # NoImage =>
                   \E k \in 1..Len(r.calls) : r.calls[k] = <<"DestroyImage", img.image>>
    /\ r.swapchain = [swapchain EXCEPT ![h] = NoSwapchain]
    /\ r.surface = [s \in SurfaceIds |-> IF surface[s] = h THEN VK_NULL_HANDLE
                                          ELSE surface[s]]
    /\ ~r.fd_error

\* C31: DestroySwapchain releases every one of the N slots (a dequeued
\* slot's buffer is cancelled with its dequeue fence when the swapchain is
\* active, its fence is waited on and closed when it is not), sets the
\* surface's handle to none if and only if it pointed at this swapchain and
\* leaves it unchanged otherwise.
DestroyReleasesEverySlot ==
    \A h \in Handles, returns \in BOOLEAN :
        (Live(World, h) /\ (returns \/ DestroyCallsNullWindow(World, h))) =>
            \E r \in {DestroySwapchainKHRWith(World, h, returns)} : DestroyReleased(h, r)

\* The same of every call of DestroySwapchain in which each call made
\* through a window pointer returns.
DestroyThatReturnsReleasesEverySlot ==
    \A h \in Handles :
        Live(World, h) =>
            \E r \in {DestroySwapchainKHR(World, h)} : DestroyReleased(h, r)

\* The calls of a log that are call.
CallsOf(calls, call) == {k \in 1..Len(calls) : calls[k] = call}

\* C32: when CreateSwapchain returns after it reached the loop that
\* dequeues the buffers, every buffer it dequeued has been cancelled exactly
\* once, with the fence it was dequeued with; on success every slot holds an
\* image and a buffer, is not dequeued and has fence -1, and the new handle
\* is the surface's active swapchain; on failure every image created during
\* the call has been destroyed.
CreateCancelsEveryBufferOnce ==
    \A c \in AllCreateCalls :
        (~OldSwapchainMismatch(World, c[1])
            /\ c[2].fail[1] \in {"none", "dequeueBuffer", "CreateImage"}) =>
            \E r \in {CreateSwapchainKHR(World, c[1], c[2])} :
                /\ \A k \in 1..Len(r.w.calls) :
                      \E call \in {r.w.calls[k]} :
                         /\ (call[1] = "dequeueBuffer" /\ call[3] # NoBuffer) =>
                               /\ Cardinality(WindowReturns(r.w.calls, call[3])) = 1
                               /\ Cardinality(CallsOf(r.w.calls,
                                      <<"cancelBuffer", call[2], call[3], call[4]>>)) = 1
                         /\ (call[1] = "CreateImage" /\ call[2] # NoImage
                               /\ r.result # VK_SUCCESS) =>
                               Cardinality(CallsOf(r.w.calls, <<"DestroyImage", call[2]>>)) = 1
                /\ r.w.open_fds = open_fds
                /\ ~r.w.fd_error
                /\ r.result = VK_SUCCESS =>
                      /\ r.w.surface[c[1].surface] = r.handle
                      /\ r.w.swapchain[r.handle].num_images
                            = NumImages(c[1], c[2].query_value)
                      /\ \A i \in Slots(r.w, r.handle) :
                            \E img \in {Img(r.w, r.handle, i)} :
                               /\ img.image # NoImage
                               /\ img.buffer # NoBuffer
                               /\ ~img.dequeued
                               /\ img.dequeue_fence = NoFence

\* A create failed at the image of its third buffer: three buffers with
\* fences went back to the window and no fd is left.
CreateFailedAtThirdImage ==
    /\ last.op = "CreateSwapchain"
    /\ last.result = VK_ERROR_OUT_OF_DEVICE_MEMORY
    /\ Cardinality(last.fds) = 3
    /\ open_fds = {}

\* The frames_ago values of the frame-timestamp queries of a log.
FrameQueries(calls) == {k \in 1..Len(calls) : calls[k][1] = "get_frame_timestamps"}

\* The records of a store that are not ready.
Unready(timing) == {i \in 1..Len(timing) : ~Ready(timing[i])}

\* C33: get_num_ready_timings asks the window for the timestamps of the
\* frame f frames ago only for MIN_NUM_FRAMES_AGO <= f < the size of the
\* store, never for a record that is ready, and fills a record only with
\* the timestamps of a frame whose desired present time is the record's
\* desiredPresentTime.
RefreshProbesOldFramesOfUnreadyRecords ==
    \A h \in Handles :
        Live(World, h) =>
            \A env \in [frames : FrameHistories(Timed)] :
                \E r \in {get_num_ready_timings(World, h, env)},
                   timing \in {swapchain[h].timing} :
                    /\ \A k \in FrameQueries(r.w.calls) :
                          /\ r.w.calls[k][3] >= MIN_NUM_FRAMES_AGO
                          /\ r.w.calls[k][3] < Len(timing)
                          /\ r.w.calls[k][2] = swapchain[h].surface
                    /\ Cardinality(FrameQueries(r.w.calls))
                          <= Cardinality(Unready(timing))
                               * (IF Len(timing) > MIN_NUM_FRAMES_AGO
                                  THEN Len(timing) - MIN_NUM_FRAMES_AGO ELSE 0)
                    /\ Unready(timing) = {} => r.w.calls = <<>>
                    /\ Len(r.w.swapchain[h].timing) = Len(timing)
                    /\ \A i \in 1..Len(timing) :
                          r.w.swapchain[h].timing[i] # timing[i] =>
                              /\ i \in Unready(timing)
                              /\ \E j \in 1..Len(env.frames) :
                                    \E got \in {env.frames[j]} :
                                       /\ got.ok
                                       /\ got.desired = timing[i].desiredPresentTime
                                       /\ j + MIN_NUM_FRAMES_AGO - 1 < Len(timing)
                                       /\ \E ti \in {r.w.swapchain[h].timing[i]} :
                                             /\ ti.timestamp_desired_present_time = got.desired
                                             /\ ti.timestamp_actual_present_time = got.actual
                                             /\ ti.timestamp_render_complete_time = got.render
                                             /\ ti.timestamp_composition_latch_time = got.latch

\* A count-only query found the frame of a present that has not been shown
\* yet behind the frame of another present: the record has the frame's
\* timestamps and is not ready.
FilledFromSecondFrame ==
    /\ last.op = "GetPastPresentationTiming"
    /\ last.arg = <<0, FALSE>>
    /\ last.out = 0
    /\ \E ti \in {swapchain[last.swapchain].timing[k] :
                     k \in 1..Len(swapchain[last.swapchain].timing)} :
          /\ ti.timestamp_desired_present_time = ti.desiredPresentTime
          /\ ti.timestamp_desired_present_time # 0
          /\ ti.timestamp_actual_present_time = 0
    /\ Len(swapchain[last.swapchain].timing) > MIN_NUM_FRAMES_AGO + 1

\* Whether the ALOG_ASSERT at the head of ReleaseSwapchainImage held in
\* every call of it that a log shows.
ReleaseAssertHeld(calls) ==
    \A k \in 1..Len(calls) : calls[k] # <<"ALOG_ASSERT", "ReleaseSwapchainImage">>

\* C34: the assertion at the head of ReleaseSwapchainImage holds in every
\* call the public operations make: a release fence is only given for a
\* slot that is dequeued, also in the present whose queueBuffer failed.
ReleaseFenceOnlyForDequeued ==
    /\ \A e \in PresentEntries(World, Lifecycle) :
          ReleaseAssertHeld(QueuePresentKHR(World, <<e>>).w.calls)
    /\ \A c \in CreateCalls(World, Lifecycle) :
          ReleaseAssertHeld(CreateSwapchainKHR(World, c[1], c[2]).w.calls)
    /\ \A h \in Handles :
          Live(World, h) =>
             /\ ReleaseAssertHeld(DestroySwapchainKHR(World, h).calls)
             /\ \A env \in AcquireEnvs(World, h, Lifecycle) :
                   ReleaseAssertHeld(AcquireNextImageKHR(World, h, env).w.calls)

\* The same of the presents in which queueBuffer does not fail after the
\* driver made a release fence.
ReleaseFenceOnlyForDequeuedUnlessQueueFails ==
    \A e \in PresentEntries(World, Lifecycle) :
        (e.queueOk \/ ~e.fence) =>
            ReleaseAssertHeld(QueuePresentKHR(World, <<e>>).w.calls)

\* C35: TimingInfo::calculate terminates for every refresh period, 0
\* included, and every combination of timestamps.
CalculateTerminates ==
    last.op = "calculate" => last.out.returns

\* The same of every refresh period that is not 0.
CalculateTerminatesForPositivePeriod ==
    (last.op = "calculate" /\ last.arg[4] # 0) => last.out.returns

\* The records of a store that were enrolled with desiredPresentTime 0.
UntimedRecords(timing) == {k \in 1..Len(timing) : timing[k].desiredPresentTime = 0}

ReadyRecords(timing) == {i \in 1..Len(timing) : Ready(timing[i])}

\* C37: while the timing store holds at most MIN_NUM_FRAMES_AGO records the
\* refresh asks the window for no frame timestamps and makes no record
\* ready, whatever the window has; a record becomes ready only in a refresh
\* of a store of more than MIN_NUM_FRAMES_AGO records, and in no present,
\* create or buffer query.
SmallStoreIsNeverRefreshed ==
    \A h \in Handles :
        Live(World, h) =>
            \E timing \in {swapchain[h].timing} :
                /\ \A env \in [frames : FrameHistories(Timed)] :
                      \E r \in {GetPastPresentationTimingGOOGLE(World, h, 0, FALSE, env)} :
                         \E after \in {r.w.swapchain[h].timing} :
                            /\ Len(timing) <= MIN_NUM_FRAMES_AGO =>
                                  /\ FrameQueries(r.w.calls) = {}
                                  /\ after = timing
                                  /\ r.count = Cardinality(ReadyRecords(timing))
                            /\ Len(after) = Len(timing)
                            /\ ReadyRecords(after) \cap Unready(timing) # {} =>
                                  Len(timing) > MIN_NUM_FRAMES_AGO
                /\ \A count \in 1..MAX_TIMING_INFOS :
                      \E r \in {GetPastPresentationTimingGOOGLE(World, h, count, TRUE,
                                                                 [frames |-> <<>>])} :
                         /\ Cardinality(Unready(r.w.swapchain[h].timing))
                               = Cardinality(Unready(timing))
                         /\ FrameQueries(r.w.calls) = {}
                /\ \A e \in PresentEntries(World, Timed) :
                      \E r \in {QueuePresentKHR(World, <<e>>)} :
                         /\ Cardinality(ReadyRecords(r.w.swapchain[h].timing))
                               <= Cardinality(ReadyRecords(timing))
                         /\ FrameQueries(r.w.calls) = {}
                /\ \A c \in CreateCalls(World, Timed) :
                      \E r \in {CreateSwapchainKHR(World, c[1], c[2])} :
                         r.w.swapchain[h].timing = timing

\* A count-only query ran on a store of MIN_NUM_FRAMES_AGO records of which
\* none had its timestamps: it counted none.
FullSmallStoreQueried ==
    /\ last.op = "GetPastPresentationTiming"
    /\ last.arg = <<0, FALSE>>
    /\ last.out = 0
    /\ Len(swapchain[last.swapchain].timing) = MIN_NUM_FRAMES_AGO
    /\ Unready(swapchain[last.swapchain].timing) = 1..MIN_NUM_FRAMES_AGO

\* C38: a present in which the driver's release-fence call or queueBuffer
\* fails orphans the active swapchain it presents to and leaves the surface
\* without an active swapchain: a create that follows and names the orphan
\* as oldSwapchain is rejected with VK_ERROR_NATIVE_WINDOW_IN_USE_KHR, one
\* that names no oldSwapchain passes the oldSwapchain check.
FailedPresentLeavesSurfaceFree ==
    \A e \in PresentEntries(World, Lifecycle) :
        (Active(World, e.swapchain) /\ (e.driver # VK_SUCCESS \/ ~e.queueOk)) =>
            \E r \in {QueuePresentKHR(World, <<e>>)}, s \in {swapchain[e.swapchain].surface} :
                /\ r.result # VK_SUCCESS
                /\ Live(r.w, e.swapchain)
                /\ r.w.surface[s] = VK_NULL_HANDLE
                /\ \A c \in CreateCalls(r.w, Lifecycle) :
                      c[1].surface = s =>
                          \E made \in {CreateSwapchainKHR(r.w, c[1], c[2])} :
                             /\ c[1].oldSwapchain = e.swapchain =>
                                   /\ made.result = VK_ERROR_NATIVE_WINDOW_IN_USE_KHR
                                   /\ made.w = r.w
                             /\ c[1].oldSwapchain = VK_NULL_HANDLE =>
                                   /\ ~OldSwapchainMismatch(r.w, c[1])
                                   /\ made.result # VK_ERROR_NATIVE_WINDOW_IN_USE_KHR
                /\ \E c \in CreateCalls(r.w, Lifecycle) : c[1].oldSwapchain = e.swapchain
                /\ FreeHandles(r.w) # {} =>
                      \E c \in CreateCalls(r.w, Lifecycle) :
                         /\ c[1].oldSwapchain = VK_NULL_HANDLE
                         /\ CreateSwapchainKHR(r.w, c[1], c[2]).result = VK_SUCCESS

\* A create named a swapchain as oldSwapchain that no create had replaced
\* and was rejected although the surface has no active swapchain: a failed
\* present had orphaned the swapchain.
CreateNamingOrphanRejected ==
    /\ last.op = "CreateSwapchain"
    /\ last.result = VK_ERROR_NATIVE_WINDOW_IN_USE_KHR
    /\ last.arg.oldSwapchain # VK_NULL_HANDLE
    /\ last.arg.oldSwapchain \notin retired
    /\ Live(World, last.arg.oldSwapchain)
    /\ surface[last.arg.surface] = VK_NULL_HANDLE

\* The swapchains a log shows a timing record enrolled for.
EnrolledFor(calls) == {calls[k][2] : k \in {j \in 1..Len(calls) : calls[j][1] = "timing.add"}}

\* C39: QueuePresentKHR enrols a timing record only for an entry with a
\* timing hint whose swapchain is active and whose release-fence call
\* succeeded; the timing store of an orphaned swapchain is empty in every
\* state, and GetPastPresentationTimingGOOGLE reports no record for it.
OrphanHasNoTimings ==
    /\ \A e \in PresentEntries(World, Orphaned) :
          \E r \in {QueuePresentKHR(World, <<e>>)} :
             /\ EnrolledFor(r.w.calls) \subseteq {e.swapchain}
             /\ EnrolledFor(r.w.calls) # {} =>
                   /\ Active(World, e.swapchain)
                   /\ e.driver = VK_SUCCESS
                   /\ e.time.given
             /\ \A h \in Handles :
                   (Live(World, h) /\ ~Active(World, h)) => r.w.swapchain[h].timing = <<>>
             /\ ~Active(r.w, e.swapchain) => r.w.swapchain[e.swapchain].timing = <<>>
    /\ \A h \in Handles :
          (Live(World, h) /\ ~Active(World, h)) =>
             /\ swapchain[h].timing = <<>>
             /\ \A env \in [frames : FrameHistories(Timed)] :
                   \E r \in {GetPastPresentationTimingGOOGLE(World, h, 0, FALSE, env)} :
                      /\ r.returns
                      /\ r.count = 0
                      /\ r.w.swapchain[h].timing = <<>>
             /\ \A count \in 1..MAX_TIMING_INFOS :
                   \E r \in {GetPastPresentationTimingGOOGLE(World, h, count, TRUE,
                                                              [frames |-> <<>>])} :
                      /\ r.count = 0
                      /\ r.timings = <<>>
                      /\ r.w.swapchain[h].timing = <<>>

\* An image of a swapchain that had enrolled timing records while it was
\* active was presented after the swapchain was orphaned: the store is
\* empty.
OrphanWithTimingsPresented ==
    /\ last.op = "QueuePresent"
    /\ last.result = VK_ERROR_OUT_OF_DATE_KHR
    /\ Live(World, last.swapchain)
    /\ ~Active(World, last.swapchain)
    /\ swapchain[last.swapchain].frame_timestamps_enabled
    /\ swapchain[last.swapchain].timing = <<>>

\* C40: GetPastPresentationTimingGOOGLE with a buffer does not refresh the
\* store: it asks the window for no frame timestamps and makes no record
\* ready, whatever the window has, so every record it returns was ready
\* before the call; no present and no create makes a record ready either,
\* which leaves the count-only call.
BufferQueryDoesNotRefresh ==
    \A h \in Handles :
        Live(World, h) =>
            \E timing \in {swapchain[h].timing} :
                /\ \A count \in 1..MAX_TIMING_INFOS, env \in [frames : FrameHistories(Timed)] :
                      \E r \in {GetPastPresentationTimingGOOGLE(World, h, count, TRUE, env)} :
                         \E after \in {r.w.swapchain[h].timing} :
                            /\ r.returns
                            /\ FrameQueries(r.w.calls) = {}
                            /\ \A k \in 1..Len(r.timings) :
                                  \E i \in ReadyRecords(timing) : r.timings[k] = Values(timing[i])
                            /\ Len(after) = Len(timing) - Len(r.timings)
                            /\ \A k \in 1..Len(after) : \E i \in 1..Len(timing) : after[k] = timing[i]
                            /\ Cardinality(Unready(after)) = Cardinality(Unready(timing))
                            /\ Cardinality(ReadyRecords(after))
                                  = Cardinality(ReadyRecords(timing)) - Len(r.timings)
                /\ \A e \in PresentEntries(World, Timed) :
                      Cardinality(ReadyRecords(QueuePresentKHR(World, <<e>>).w.swapchain[h].timing))
                          <= Cardinality(ReadyRecords(timing))
                /\ \A c \in CreateCalls(World, Timed) :
                      Cardinality(ReadyRecords(CreateSwapchainKHR(World, c[1], c[2]).w.swapchain[h].timing))
                          <= Cardinality(ReadyRecords(timing))

\* A buffer query returned a record and left behind more than
\* MIN_NUM_FRAMES_AGO records with one among them that is not ready.
BufferQueryLeftUnready ==
    /\ last.op = "GetPastPresentationTiming"
    /\ last.arg = <<MAX_TIMING_INFOS, TRUE>>
    /\ last.out >= 1
    /\ Len(swapchain[last.swapchain].timing) > MIN_NUM_FRAMES_AGO
    /\ Unready(swapchain[last.swapchain].timing) # {}

====
